---- MODULE Spec2Model ----
(***************************************************************************)
(* Model of the debugger-for-llms VSCode extension: the debug adapter      *)
(* tracker, the DebugSessionManager event handlers, the DataProcessor      *)
(* (history, privacy filters, retention) and the bounded console and       *)
(* network buffers.                                                        *)
(***************************************************************************)
EXTENDS Integers, Sequences, FiniteSets, TLC

VARIABLES
    now,             \* Date.now()
    activeSessions,  \* keys of DebugSessionManager.activeSessions
    stoppedSessions, \* sessions for which stopSession has run
    sessionHistory,  \* SessionData.contextHistory, per session
    dpOrder,         \* DataProcessor.contextHistory: keys in insertion order
    dpHistory,       \* DataProcessor.contextHistory: value per key
    tasks,           \* suspended handler invocations (one per awaiting event)
    arrived,         \* number of events delivered, per session
    ev,              \* per delivered event: what became of it
    conBuf,          \* ContextCollector.consoleOutputBuffer
    conAppended,     \* entries pushed on conBuf since construction / clear
    netBuf,          \* MiddlewareRegistry.networkActivityBuffer
    netAppended,     \* entries pushed on netBuf since construction / clear
    lastOp,          \* the DataProcessor call made by the last step
    filt,            \* applyPrivacyFilters: settings, argument and result
    config,          \* MiddlewareRegistry.config
    middlewares,     \* MiddlewareRegistry.middlewares: entries in key order
    eventListeners,  \* MiddlewareRegistry.eventListeners
    aiModeEnabled    \* UIController.aiModeEnabled

vars == <<now, activeSessions, stoppedSessions, sessionHistory, dpOrder,
          dpHistory, tasks, arrived, ev, conBuf, conAppended, netBuf,
          netAppended, lastOp, filt, config, middlewares, eventListeners,
          aiModeEnabled>>

-----------------------------------------------------------------------------
(* Bounds of the exploration *)

Sessions == {"s1", "s2"}
MaxEvents == 2        \* events delivered in a run of Spec
MaxTime == 2          \* clock readings 1..MaxTime in Spec
MaxHistEvents == 102  \* events ingested in a run of SpecHist
MaxAppends == 1005    \* entries appended to a buffer in a run of SpecBuf
MaxRetEvents == 3     \* contexts ingested in a run of SpecRetention
MaxAge == 1           \* retention policies: maxAge in 0..MaxAge
MaxSize == 2          \* retention policies: maxSize in 0..MaxSize
MaxVars == 1          \* variables of a context in a run of SpecFilter
MaxPasses == 2        \* times a context is filtered in a run of SpecFilter
MaxRequests == 2      \* pairs collected in a run of SpecNetwork
MaxMessages == 2      \* messages collected in a run of SpecConsole
MaxIngests == 2       \* raw contexts ingested in a run of SpecIngest
MaxListeners == 3     \* listeners registered at a time in SpecListeners
MaxPipelineEvents == 2 \* events handled in a run of SpecPipeline
MaxRecentAppends == 3 \* entries appended to a buffer in a run of SpecRecent

(* Program constants *)

SessionHistoryLimit == 50   \* DebugSessionManager: "last 50 entries"
maxHistorySize == 100       \* DataProcessor.maxHistorySize
maxConsoleBufferSize == 1000
maxBufferSize == 1000

-----------------------------------------------------------------------------
(* Array helpers with the semantics of JavaScript *)

Min(a, b) == IF a < b THEN a ELSE b
Max(a, b) == IF a > b THEN a ELSE b

\* Array.prototype.slice(start): a negative start counts from the end,
\* and slice(-0) is slice(0), the whole array.
JsSlice(s, start) ==
    LET len == Len(s)
        from == IF start < 0 THEN Max(len + start, 0) ELSE Min(start, len)
    IN  SubSeq(s, from + 1, len)

\* Array.prototype.slice(0, end) for end >= 0
JsPrefix(s, end) == SubSeq(s, 1, Min(end, Len(s)))

\* Array.prototype.shift(), value discarded
JsShift(s) == IF s = <<>> THEN s ELSE Tail(s)

RECURSIVE SeqFilterTs_Inclusive(_, _)
\* the retention filter with >= for >
SeqFilterTs_Inclusive(s, cutoff) ==
    IF s = <<>> THEN <<>>
    ELSE IF Head(s).timestamp >= cutoff
         THEN <<Head(s)>> \o SeqFilterTs_Inclusive(Tail(s), cutoff)
         ELSE SeqFilterTs_Inclusive(Tail(s), cutoff)

RECURSIVE SeqFilterTs(_, _)
\* contexts.filter(context => context.timestamp > cutoffTime)
SeqFilterTs(s, cutoff) ==
    IF s = <<>> THEN <<>>
    ELSE IF Head(s).timestamp > cutoff
         THEN <<Head(s)>> \o SeqFilterTs(Tail(s), cutoff)
         ELSE SeqFilterTs(Tail(s), cutoff)

RECURSIVE SeqRemove(_, _)
SeqRemove(s, x) ==
    IF s = <<>> THEN <<>>
    ELSE IF Head(s) = x THEN SeqRemove(Tail(s), x)
         ELSE <<Head(s)>> \o SeqRemove(Tail(s), x)

InSeq(s, x) == \E i \in 1..Len(s) : s[i] = x

-----------------------------------------------------------------------------
(* DataProcessor: history *)

\* DataProcessor.processContext: the defaults of the fields the history
\* and the escalation decision read (a timestamp of 0 is falsy).
ProcessContext(raw) ==
    [raw EXCEPT !.timestamp = IF raw.timestamp = 0 THEN now ELSE raw.timestamp]

\* addToHistory without the size check: nothing is ever evicted
AddToHistory_NoEviction(hist, ctx) == Append(hist, ctx)

\* the record of a processContext call: cleanups are told apart by flip
NoPolicy == [maxAge |-> 0, maxSize |-> 0]
IngestOp == [op |-> "processContext", policy |-> NoPolicy, at |-> 0,
             flip |-> lastOp.flip]

\* DataProcessor.addToHistory: the new value of the session's entry
AddToHistory(hist, ctx) ==
    LET pushed == Append(hist, ctx)
    IN  IF Len(pushed) > maxHistorySize THEN JsShift(pushed) ELSE pushed

\* Map.set: a new key goes last, an existing key keeps its place
MapSetOrder(order, key) == IF InSeq(order, key) THEN order ELSE Append(order, key)

\* DebugSessionManager: push and "keep only recent context (last 50 entries)"
PushSessionHistory(hist, ctx) ==
    LET pushed == Append(hist, ctx)
    IN  IF Len(pushed) > SessionHistoryLimit
        THEN JsSlice(pushed, -SessionHistoryLimit) ELSE pushed

\* shouldAnalyzeContext without the "meaningful context" test on breakpoints
shouldAnalyzeContext_AnyBreakpoint(context, highPriority) ==
    IF context.eventType = "exception" \/ highPriority THEN TRUE
    ELSE IF context.eventType = "breakpoint" THEN TRUE
    ELSE IF context.eventType = "step" THEN context.exception
    ELSE FALSE

\* shouldAnalyzeContext with the step test inverted (=== for !==)
shouldAnalyzeContext_StepInverted(context, highPriority) ==
    IF context.eventType = "exception" \/ highPriority THEN TRUE
    ELSE IF context.eventType = "breakpoint"
            /\ (Len(context.variables) > 0 \/ context.exception)
         THEN TRUE
    ELSE IF context.eventType = "step" THEN ~context.exception
    ELSE FALSE

\* DebugSessionManager.shouldAnalyzeContext
shouldAnalyzeContext(context, highPriority) ==
    IF context.eventType = "exception" \/ highPriority THEN TRUE
    ELSE IF context.eventType = "breakpoint"
            /\ (Len(context.variables) > 0 \/ context.exception)
         THEN TRUE
    ELSE IF context.eventType = "step" THEN context.exception
    ELSE FALSE

-----------------------------------------------------------------------------
(* Events, handler invocations and contexts *)

StopReasons == {"breakpoint", "exception", "step", "pause"}
StepTypes == {"stepIn", "stepOut", "stepOver", "continue"}
StackChoices == {<<>>, <<"main">>}     \* a failed stackTrace request gives []
VarChoices == {<<>>, <<"count">>}      \* a failed variables request gives []

RECURSIVE SumOver(_, _)
SumOver(f, S) ==
    IF S = {} THEN 0
    ELSE LET x == CHOOSE y \in S : TRUE IN f[x] + SumOver(f, S \ {x})

TotalArrived == SumOver(arrived, Sessions)

Key(t) == <<t.sid, t.seq>>

\* activeSessions.get(sessionId) finds the session
getSession_AnyTracked(sessionId) ==
    sessionId \in activeSessions \cup stoppedSessions

getSession(sessionId) == sessionId \in activeSessions

\* the record kept for an event delivered for session s, and what became
\* of the event: "pending" until its handler starts collecting, "collecting"
\* while the context is collected ("late" for both when the event arrived
\* with the session not active), then "committed" when the context is
\* pushed on the history or "rejected" when processAndAnalyzeContext or
\* onConsoleOutput finds no session; shown tells whether showInsights was
\* called for it
NewEv(s, kind, status) ==
    [kind |-> kind,
     status |-> IF status \in {"pending", "collecting"} /\ s \notin activeSessions
                THEN "late" ELSE status,
     eventType |-> "none", nvars |-> 0,
     exception |-> FALSE, highPriority |-> FALSE, decision |-> "none",
     requested |-> FALSE, shown |-> FALSE]

\* a handler invocation suspended at an await
NewTask(s, kind, pc) ==
    [sid |-> s, seq |-> arrived[s] + 1, kind |-> kind, pc |-> pc,
     eventType |-> "none", ts |-> 0, hasFrame |-> FALSE, stack |-> <<>>,
     exc |-> FALSE, hp |-> FALSE]

\* delivery that waits until no analysis request is pending
Deliver_AwaitsAnalysis(s, kind, status) ==
    /\ \A t \in tasks : t.pc # "ai"
    /\ arrived' = [arrived EXCEPT ![s] = @ + 1]
    /\ ev' = (<<s, arrived[s] + 1>> :> NewEv(s, kind, status)) @@ ev

Deliver(s, kind, status) ==
    /\ arrived' = [arrived EXCEPT ![s] = @ + 1]
    /\ ev' = (<<s, arrived[s] + 1>> :> NewEv(s, kind, status)) @@ ev

SetEv(k, field, val) == [ev EXCEPT ![k] = [@ EXCEPT ![field] = val]]

\* ContextCollector.getRecentConsoleOutput
getRecentConsoleOutput(maxEntries) == JsSlice(conBuf, -maxEntries)

\* ContextCollector.addToConsoleBuffer
addToConsoleBuffer(buf, logEntry) ==
    LET pushed == Append(buf, logEntry)
    IN  IF Len(pushed) > maxConsoleBufferSize
        THEN JsSlice(pushed, -maxConsoleBufferSize) ELSE pushed

\* addToBuffer keeping the head of the buffer: slice(0, max) for slice(-max)
addToBuffer_KeepOldest(buf, networkData) ==
    JsPrefix(Append(buf, networkData), maxBufferSize)

\* MiddlewareRegistry.addToBuffer
addToBuffer(buf, networkData) ==
    LET pushed == Append(buf, networkData)
    IN  IF Len(pushed) > maxBufferSize
        THEN JsSlice(pushed, -maxBufferSize) ELSE pushed

-----------------------------------------------------------------------------
(* DebugSessionManager: sessions *)

StartSession(s) ==
    /\ s \notin activeSessions
    /\ s \notin stoppedSessions          \* session ids are never reused
    /\ activeSessions' = activeSessions \cup {s}
    /\ sessionHistory' = [sessionHistory EXCEPT ![s] = <<>>]
    /\ UNCHANGED <<now, stoppedSessions, dpOrder, dpHistory, tasks, arrived,
                   ev, conBuf, conAppended, netBuf, netAppended, lastOp, filt,
                   config, middlewares, eventListeners>>
    /\ aiModeEnabled' = TRUE       \* updateStatus({aiModeEnabled: true})

StopSession(s) ==
    /\ s \in activeSessions
    /\ activeSessions' = activeSessions \ {s}
    /\ stoppedSessions' = stoppedSessions \cup {s}
    /\ sessionHistory' = [sessionHistory EXCEPT ![s] = <<>>]
    /\ UNCHANGED <<now, dpOrder, dpHistory, tasks, arrived, ev, conBuf,
                   conAppended, netBuf, netAppended, lastOp, filt,
                   config, middlewares, eventListeners>>
    /\ aiModeEnabled' = IF activeSessions \ {s} = {} THEN FALSE ELSE aiModeEnabled

Tick ==
    /\ now < MaxTime
    /\ now' = now + 1
    /\ UNCHANGED <<activeSessions, stoppedSessions, sessionHistory, dpOrder,
                   dpHistory, tasks, arrived, ev, conBuf, conAppended, netBuf,
                   netAppended, lastOp, filt,
                   config, middlewares, eventListeners, aiModeEnabled>>

-----------------------------------------------------------------------------
(* DebugSessionManager: collectDebugContext and processAndAnalyzeContext *)

\* the first synchronous part of collectDebugContext, up to the await of
\* collectStackTrace
BeginCollect(t, eventType, hasFrame, exc, hp) ==
    [t EXCEPT !.pc = "stack", !.eventType = eventType, !.ts = now,
              !.hasFrame = hasFrame, !.exc = exc, !.hp = hp]

\* the event of t once its collection has started
Collecting(t) ==
    IF ev[Key(t)].status = "pending" /\ t.sid \in activeSessions
    THEN SetEv(Key(t), "status", "collecting") ELSE ev

\* the context built at the end of collectDebugContext
BuildContext(t, stackTrace, variables) ==
    [sessionId |-> t.sid, seq |-> t.seq, timestamp |-> t.ts,
     eventType |-> t.eventType, stackTrace |-> stackTrace,
     variables |-> variables,
     consoleOutput |->
         getRecentConsoleOutput(IF t.eventType = "exception" THEN 10 ELSE 5),
     exception |-> t.exc]

\* processAndAnalyzeContext up to its await of the analysis client
processAndAnalyzeContext(t, context) ==
    IF ~getSession(t.sid)
    THEN /\ tasks' = tasks \ {t}
         /\ ev' = SetEv(Key(t), "status", "rejected")
         /\ UNCHANGED <<sessionHistory, dpOrder, dpHistory, lastOp, aiModeEnabled>>
    ELSE LET decision == shouldAnalyzeContext(context, t.hp)
             committed == [ev[Key(t)] EXCEPT
                             !.status = "committed",
                             !.eventType = context.eventType,
                             !.nvars = Len(context.variables),
                             !.exception = context.exception,
                             !.highPriority = t.hp,
                             !.decision = IF decision THEN "yes" ELSE "no",
                             !.requested = decision]
         IN  /\ sessionHistory' = [sessionHistory EXCEPT
                    ![t.sid] = PushSessionHistory(@, context)]
             /\ dpHistory' = [dpHistory EXCEPT
                    ![t.sid] = AddToHistory(@, ProcessContext(context))]
             /\ dpOrder' = MapSetOrder(dpOrder, t.sid)
             /\ lastOp' = IngestOp
             /\ ev' = [ev EXCEPT ![Key(t)] = committed]
             /\ tasks' = IF decision
                         THEN (tasks \ {t}) \cup {[t EXCEPT !.pc = "ai"]}
                         ELSE tasks \ {t}
             \* without a request the handler runs on to its updateStatus
             /\ aiModeEnabled' = IF decision THEN aiModeEnabled ELSE TRUE

\* the stackTrace request of collectStackTrace completes
StackResponse(t, frames) ==
    /\ t \in tasks /\ t.pc = "stack"
    /\ IF t.hasFrame
       THEN /\ tasks' = (tasks \ {t}) \cup {[t EXCEPT !.pc = "vars", !.stack = frames]}
            /\ UNCHANGED <<sessionHistory, dpOrder, dpHistory, ev, lastOp,
                           aiModeEnabled>>
       ELSE processAndAnalyzeContext(t, BuildContext(t, frames, <<>>))
    /\ UNCHANGED <<now, activeSessions, stoppedSessions, arrived, conBuf,
                   conAppended, netBuf, netAppended, filt,
                   config, middlewares, eventListeners>>

\* the scopes / variables requests of collectVariables complete
VarsResponse(t, variables) ==
    /\ t \in tasks /\ t.pc = "vars"
    /\ processAndAnalyzeContext(t, BuildContext(t, t.stack, variables))
    /\ UNCHANGED <<now, activeSessions, stoppedSessions, arrived, conBuf,
                   conAppended, netBuf, netAppended, filt,
                   config, middlewares, eventListeners>>

\* the analysis request settles, and a rejected request shows nothing
AIResponse_SilentOnFailure(t, ok) ==
    /\ t \in tasks /\ t.pc = "ai"
    /\ tasks' = tasks \ {t}
    /\ ev' = SetEv(Key(t), "shown", ok)
    /\ UNCHANGED <<now, activeSessions, stoppedSessions, sessionHistory,
                   dpOrder, dpHistory, arrived, conBuf, conAppended,
                   netBuf, netAppended, lastOp, filt,
                   config, middlewares, eventListeners>>
    /\ aiModeEnabled' = TRUE

\* sendDiagnosticRequest resolves (ok) or rejects: showInsights is called
\* with the insights of the response, or from the catch block with the
\* local fallback, whether or not the session is still in activeSessions
AIResponse(t, ok) ==
    /\ t \in tasks /\ t.pc = "ai"
    /\ tasks' = tasks \ {t}
    /\ ev' = SetEv(Key(t), "shown", TRUE)
    /\ UNCHANGED <<now, activeSessions, stoppedSessions, sessionHistory,
                   dpOrder, dpHistory, arrived, conBuf, conAppended,
                   netBuf, netAppended, lastOp, filt,
                   config, middlewares, eventListeners>>
    /\ aiModeEnabled' = TRUE       \* updateStatus at the end of the handler

-----------------------------------------------------------------------------
(* DebugSessionManager: event handlers *)

onBreakpoint(s, hasFrame) ==
    /\ Deliver(s, "breakpoint", "collecting")
    /\ tasks' = tasks \cup
          {BeginCollect(NewTask(s, "breakpoint", "stack"), "breakpoint", hasFrame, FALSE, FALSE)}
    /\ UNCHANGED <<now, activeSessions, stoppedSessions, sessionHistory,
                   dpOrder, dpHistory, conBuf, conAppended, netBuf,
                   netAppended, lastOp, filt,
                   config, middlewares, eventListeners, aiModeEnabled>>

onException(s) ==
    /\ Deliver(s, "exception", "collecting")
    /\ tasks' = tasks \cup
          {BeginCollect(NewTask(s, "exception", "stack"), "exception", FALSE, TRUE, TRUE)}
    /\ UNCHANGED <<now, activeSessions, stoppedSessions, sessionHistory,
                   dpOrder, dpHistory, conBuf, conAppended, netBuf,
                   netAppended, lastOp, filt,
                   config, middlewares, eventListeners, aiModeEnabled>>

onStepComplete(s, stepType) ==
    /\ IF stepType \in {"stepIn", "stepOver"}
       THEN /\ Deliver(s, "step", "collecting")
            /\ tasks' = tasks \cup
                  {BeginCollect(NewTask(s, "step", "stack"), "step", FALSE, FALSE, FALSE)}
       ELSE /\ Deliver(s, "step", "skipped")
            /\ UNCHANGED tasks
    /\ UNCHANGED <<lastOp, now, activeSessions, stoppedSessions, sessionHistory,
                   dpOrder, dpHistory, conBuf, conAppended, netBuf,
                   netAppended, filt,
                   config, middlewares, eventListeners, aiModeEnabled>>

\* onConsoleOutput: collectConsoleOutput buffers the entry, and the console
\* context is pushed on the history of a tracked session
onConsoleOutput(s) ==
    LET logEntry == [n |-> conAppended + 1, timestamp |-> now]
        context == [sessionId |-> s, seq |-> arrived[s] + 1, timestamp |-> now,
                    eventType |-> "console", stackTrace |-> <<>>,
                    variables |-> <<>>, consoleOutput |-> <<logEntry>>,
                    exception |-> FALSE]
        e == NewEv(s, "console", "pending")
    IN  /\ conBuf' = addToConsoleBuffer(conBuf, logEntry)
        /\ conAppended' = conAppended + 1
        /\ arrived' = [arrived EXCEPT ![s] = @ + 1]
        /\ IF getSession(s)
           THEN /\ sessionHistory' = [sessionHistory EXCEPT
                       ![s] = PushSessionHistory(@, context)]
                /\ ev' = (<<s, arrived[s] + 1>> :>
                           [e EXCEPT !.status = "committed", !.eventType = "console"]) @@ ev
           ELSE /\ UNCHANGED sessionHistory
                /\ ev' = (<<s, arrived[s] + 1>> :>
                           [e EXCEPT !.status = "rejected"]) @@ ev

-----------------------------------------------------------------------------
(* DebugAdapterTracker *)

\* onDidSendMessage with a 'stopped' event: handleStoppedEvent awaits
\* getThread before anything else
StoppedEvent(s, reason) ==
    /\ Deliver(s, reason, "pending")
    /\ tasks' = tasks \cup {NewTask(s, reason, "thread")}
    /\ UNCHANGED <<now, activeSessions, stoppedSessions, sessionHistory,
                   dpOrder, dpHistory, conBuf, conAppended, netBuf,
                   netAppended, lastOp, filt,
                   config, middlewares, eventListeners, aiModeEnabled>>

\* the 'threads' request of getThread completes; found is FALSE when the
\* request failed or the thread is not listed
ThreadResponse(t, found) ==
    /\ t \in tasks /\ t.pc = "thread"
    /\ IF ~found
       THEN /\ tasks' = tasks \ {t}
            /\ ev' = SetEv(Key(t), "status", "lost")
       ELSE IF t.kind = "breakpoint"      \* handleBreakpointStop
       THEN /\ tasks' = (tasks \ {t}) \cup
                   {BeginCollect(t, "breakpoint", FALSE, FALSE, FALSE)}
            /\ ev' = Collecting(t)
       ELSE IF t.kind = "exception"       \* handleExceptionStop
       THEN /\ tasks' = (tasks \ {t}) \cup
                   {BeginCollect(t, "exception", FALSE, TRUE, TRUE)}
            /\ ev' = Collecting(t)
       ELSE IF t.kind = "step"            \* handleStepStop: always 'stepOver'
       THEN /\ tasks' = (tasks \ {t}) \cup
                   {BeginCollect(t, "step", FALSE, FALSE, FALSE)}
            /\ ev' = Collecting(t)
       ELSE /\ tasks' = tasks \ {t}       \* 'pause': logged only
            /\ ev' = SetEv(Key(t), "status", "ignored")
    /\ UNCHANGED <<now, activeSessions, stoppedSessions, sessionHistory,
                   dpOrder, dpHistory, arrived, conBuf, conAppended, netBuf,
                   netAppended, lastOp, filt,
                   config, middlewares, eventListeners, aiModeEnabled>>

\* onDidSendMessage with an 'output' event: handleOutputEvent forwards a
\* non-blank output to onConsoleOutput
OutputEvent(s, blank) ==
    /\ IF blank
       THEN /\ Deliver(s, "console", "ignored")
            /\ UNCHANGED <<sessionHistory, conBuf, conAppended>>
       ELSE onConsoleOutput(s)
    /\ UNCHANGED <<now, activeSessions, stoppedSessions, dpOrder, dpHistory,
                   tasks, netBuf, netAppended, lastOp, filt,
                   config, middlewares, eventListeners, aiModeEnabled>>

-----------------------------------------------------------------------------
(* The extension under a debug session: Spec *)

-----------------------------------------------------------------------------
(* DataProcessor.applyPrivacyFilters.  Strings are strings; a regular      *)
(* expression is modelled by the search it performs on the characters.     *)

REDACTED == "[REDACTED]"
TRUNCATED == "... [TRUNCATED]"

\* the i flag of the patterns: one character, lower-cased
LowerChar(c) ==
    CASE c = "A" -> "a" [] c = "B" -> "b" [] c = "C" -> "c" [] c = "D" -> "d"
      [] c = "E" -> "e" [] c = "F" -> "f" [] c = "G" -> "g" [] c = "H" -> "h"
      [] c = "I" -> "i" [] c = "J" -> "j" [] c = "K" -> "k" [] c = "L" -> "l"
      [] c = "M" -> "m" [] c = "N" -> "n" [] c = "O" -> "o" [] c = "P" -> "p"
      [] c = "Q" -> "q" [] c = "R" -> "r" [] c = "S" -> "s" [] c = "T" -> "t"
      [] c = "U" -> "u" [] c = "V" -> "v" [] c = "W" -> "w" [] c = "X" -> "x"
      [] c = "Y" -> "y" [] c = "Z" -> "z" [] OTHER -> c

RECURSIVE ToLower(_)
ToLower(s) == IF s = "" THEN "" ELSE LowerChar(Head(s)) \o ToLower(Tail(s))

UpperChar(c) ==
    CASE c = "a" -> "A" [] c = "b" -> "B" [] c = "c" -> "C" [] c = "d" -> "D"
      [] c = "e" -> "E" [] c = "f" -> "F" [] c = "g" -> "G" [] c = "h" -> "H"
      [] c = "i" -> "I" [] c = "j" -> "J" [] c = "k" -> "K" [] c = "l" -> "L"
      [] c = "m" -> "M" [] c = "n" -> "N" [] c = "o" -> "O" [] c = "p" -> "P"
      [] c = "q" -> "Q" [] c = "r" -> "R" [] c = "s" -> "S" [] c = "t" -> "T"
      [] c = "u" -> "U" [] c = "v" -> "V" [] c = "w" -> "W" [] c = "x" -> "X"
      [] c = "y" -> "Y" [] c = "z" -> "Z" [] OTHER -> c

RECURSIVE ToUpper(_)
ToUpper(s) == IF s = "" THEN "" ELSE UpperChar(Head(s)) \o ToUpper(Tail(s))

CharAt(s, i) == SubSeq(s, i, i)

\* lit occurs in s at position i
MatchesAt(s, i, lit) ==
    i + Len(lit) - 1 <= Len(s) /\ SubSeq(s, i, i + Len(lit) - 1) = lit

\* RegExp.test for a pattern with the i flag and no anchors, on a string
\* given in lower case: it matches somewhere.  A pattern is the set of the
\* lower-case literals it matches.
Test(pattern, low) ==
    \E lit \in pattern : \E i \in 1..Len(low) : MatchesAt(low, i, lit)

basePatterns ==
    << {"password"}, {"secret"}, {"token"}, {"key"}, {"auth"}, {"credential"},
       {"apikey", "api_key", "api-key"} >>
mediumPatterns == basePatterns \o << {"email"}, {"phone"}, {"ssn"}, {"social"} >>
highPatterns ==
    mediumPatterns \o << {"name"}, {"address"}, {"id"}, {"user"}, {"account"} >>

\* the switch with the 'high' case returning only the patterns that level
\* adds
getSensitivePatterns_HighOnlyAdds(sensitivityLevel) ==
    CASE sensitivityLevel = "high" ->
             << {"name"}, {"address"}, {"id"}, {"user"}, {"account"} >>
      [] sensitivityLevel = "medium" -> mediumPatterns
      [] sensitivityLevel = "low" -> basePatterns
      [] OTHER -> mediumPatterns

getSensitivePatterns(sensitivityLevel) ==
    CASE sensitivityLevel = "high" -> highPatterns
      [] sensitivityLevel = "medium" -> mediumPatterns
      [] sensitivityLevel = "low" -> basePatterns
      [] OTHER -> mediumPatterns

\* sensitivePatterns.some(pattern => pattern.test(s))
SomeTest(patterns, s) ==
    LET low == ToLower(s)
    IN  \E k \in 1..Len(patterns) : Test(patterns[k], low)

\* values: a string, an object (its properties in key order), an array,
\* or none (null / undefined)
Str(s) == [kind |-> "string", s |-> s, props |-> <<>>]
Obj(props) == [kind |-> "object", s |-> "", props |-> props]
Arr(items) == [kind |-> "array", s |-> "", props |-> items]
None == [kind |-> "none", s |-> "", props |-> <<>>]
Prop(key, value) == [key |-> key, value |-> value]

isComplexValue(value) == value.kind = "object"

isSensitiveVariable(name, value, sensitivityLevel) ==
    LET sensitivePatterns == getSensitivePatterns(sensitivityLevel)
        nameIsSensitive == SomeTest(sensitivePatterns, name)
        valueIsSensitive ==
            value.kind = "string" /\ SomeTest(sensitivePatterns, value.s)
    IN  nameIsSensitive \/ valueIsSensitive

\* sanitizeComplexValue on an object (filterVariables hands it nothing
\* else): the first 20 keys, the sensitive ones redacted
sanitizeComplexValue(value, settings) ==
    LET keys == JsPrefix(value.props, 20)
    IN  Obj([i \in 1..Len(keys) |->
                IF isSensitiveVariable(keys[i].key, keys[i].value,
                                       settings.sensitivityLevel)
                THEN Prop(keys[i].key, Str(REDACTED))
                ELSE keys[i]])

\* the truncation with the marker put in front of the kept characters
truncate_MarkerFirst(value, max) == TRUNCATED \o SubSeq(value, 1, max)

\* value.substring(0, max) + '... [TRUNCATED]'
truncate(value, max) == SubSeq(value, 1, max) \o TRUNCATED

filterVariable(variable, settings) ==
    LET sensitive == isSensitiveVariable(variable.name, variable.value,
                                         settings.sensitivityLevel)
        redacted == IF sensitive
                    THEN [variable EXCEPT !.value = Str(REDACTED), !.isRedacted = TRUE]
                    ELSE variable
        truncated ==
            IF /\ redacted.value.kind = "string"
               /\ Len(redacted.value.s) > settings.maxVariableValueLength
            THEN [redacted EXCEPT !.value =
                     Str(truncate(@.s, settings.maxVariableValueLength))]
            ELSE redacted
    IN  IF isComplexValue(truncated.value) /\ ~truncated.isRedacted
        THEN [truncated EXCEPT !.value = sanitizeComplexValue(@, settings)]
        ELSE truncated

filterVariables(variables, settings) ==
    IF ~settings.redactSensitiveVariables THEN variables
    ELSE [i \in 1..Len(variables) |-> filterVariable(variables[i], settings)]

\* \s
IsSpace(c) == c \in {" ", "\t", "\n"}

RECURSIVE SkipSpaces(_, _)
\* the first position from i on that holds no white space
SkipSpaces(s, i) ==
    IF i <= Len(s) /\ IsSpace(CharAt(s, i)) THEN SkipSpaces(s, i + 1) ELSE i

RECURSIVE SkipNonSpaces(_, _)
\* the first position from i on that holds white space
SkipNonSpaces(s, i) ==
    IF i <= Len(s) /\ ~IsSpace(CharAt(s, i)) THEN SkipNonSpaces(s, i + 1) ELSE i

RECURSIVE ReplaceAssignments(_, _, _, _)
\* s.replace(new RegExp(`(${pattern.source})[=:]\\s*[^\\s]+`, 'gi'),
\*           '$1=[REDACTED]') from position i on; low is s in lower case
ReplaceAssignments(s, low, i, pattern) ==
    IF i > Len(s) THEN ""
    ELSE LET lits == {lit \in pattern : MatchesAt(low, i, lit)}
             n == IF lits = {} THEN 0 ELSE Len(CHOOSE lit \in lits : TRUE)
             value == SkipSpaces(s, i + n + 1)
             end == SkipNonSpaces(s, value)
         IN  IF /\ lits # {}
                /\ i + n <= Len(s)
                /\ CharAt(s, i + n) \in {"=", ":"}
                /\ value <= Len(s)
             THEN SubSeq(s, i, i + n - 1) \o "=" \o REDACTED
                    \o ReplaceAssignments(s, low, end, pattern)
             ELSE CharAt(s, i) \o ReplaceAssignments(s, low, i + 1, pattern)

RECURSIVE ScrubPatterns(_, _, _)
\* the for loop of sanitizeLogMessage over the patterns from the k-th on
ScrubPatterns(sanitized, sensitivePatterns, k) ==
    IF k > Len(sensitivePatterns) THEN sanitized
    ELSE ScrubPatterns(ReplaceAssignments(sanitized, ToLower(sanitized), 1,
                                          sensitivePatterns[k]),
                       sensitivePatterns, k + 1)

sanitizeLogMessage(message, settings) ==
    IF ~settings.redactSensitiveVariables THEN message
    ELSE ScrubPatterns(message, getSensitivePatterns(settings.sensitivityLevel), 1)

filterConsoleOutput(consoleOutput, settings) ==
    LET filtered == JsSlice(consoleOutput, -settings.maxConsoleEntries)
    IN  [i \in 1..Len(filtered) |->
            [filtered[i] EXCEPT !.message = sanitizeLogMessage(@, settings)]]

sensitiveHeaderPatterns ==
    << {"authorization"}, {"cookie"}, {"x-api-key"}, {"x-auth"}, {"bearer"} >>

sanitizeHeaders(headers) ==
    [i \in 1..Len(headers) |->
        IF SomeTest(sensitiveHeaderPatterns, headers[i].key)
        THEN Prop(headers[i].key, REDACTED)
        ELSE headers[i]]

\* Object.entries(body): the properties of an object, the elements of an
\* array under their indices
Entries(body) ==
    IF body.kind = "array"
    THEN [i \in 1..Len(body.props) |-> Prop(ToString(i - 1), body.props[i])]
    ELSE body.props

\* !body
Falsy(body) == body.kind = "none" \/ (body.kind = "string" /\ body.s = "")

sanitizeRequestBody(body) ==
    IF Falsy(body) THEN body
    ELSE IF body.kind \in {"object", "array"}
    THEN LET entries == Entries(body)
         IN  Obj([i \in 1..Len(entries) |->
                    IF isSensitiveVariable(entries[i].key, entries[i].value, "medium")
                    THEN Prop(entries[i].key, Str(REDACTED))
                    ELSE entries[i]])
    ELSE body

\* body.token is truthy
HasToken(body) ==
    /\ body.kind = "object"
    /\ \E i \in 1..Len(body.props) :
          body.props[i].key = "token" /\ ~Falsy(body.props[i].value)

sanitizeResponseBody(body) ==
    IF Falsy(body) THEN body
    ELSE IF HasToken(body)
    THEN Obj([i \in 1..Len(body.props) |->
                IF body.props[i].key = "token"
                THEN Prop("token", Str(REDACTED))
                ELSE body.props[i]])
    ELSE body

filterNetworkActivity(networkActivity, settings) ==
    IF ~settings.redactNetworkData THEN networkActivity
    ELSE [i \in 1..Len(networkActivity) |->
            [networkActivity[i] EXCEPT
                !.headers = sanitizeHeaders(@),
                !.requestBody = sanitizeRequestBody(@),
                !.responseBody = sanitizeResponseBody(@)]]

RECURSIVE SkipUntil(_, _, _)
\* the first position from i on that holds the separator
SkipUntil(s, i, sep) ==
    IF i <= Len(s) /\ CharAt(s, i) # sep THEN SkipUntil(s, i + 1, sep) ELSE i

RECURSIVE ReplaceUserDir(_, _, _, _)
\* s.replace(/<dir>[^<sep>]+/g, dir \o '[USER]') from position i on
ReplaceUserDir(s, i, dir, sep) ==
    IF i > Len(s) THEN ""
    ELSE LET user == i + Len(dir)
         IN  IF MatchesAt(s, i, dir) /\ user <= Len(s) /\ CharAt(s, user) # sep
             THEN dir \o "[USER]" \o ReplaceUserDir(s, SkipUntil(s, user, sep), dir, sep)
             ELSE CharAt(s, i) \o ReplaceUserDir(s, i + 1, dir, sep)

sanitizeFilePath(filePath) ==
    ReplaceUserDir(
        ReplaceUserDir(
            ReplaceUserDir(filePath, 1, "/Users/", "/"),
            1, "/home/", "/"),
        1, "C:\\Users\\", "\\")

filterStackTrace(stackTrace, settings) ==
    LET filtered == JsPrefix(stackTrace, settings.maxStackFrames)
    IN  IF ~settings.redactFileContents THEN filtered
        ELSE [i \in 1..Len(filtered) |->
                [filtered[i] EXCEPT !.file = sanitizeFilePath(@)]]

filterSourceLocation(sourceLocation, settings) ==
    IF ~settings.redactFileContents THEN sourceLocation
    ELSE [sourceLocation EXCEPT !.file = sanitizeFilePath(@)]

applyPrivacyFilters(context, privacySettings) ==
    [context EXCEPT
        !.variables = filterVariables(@, privacySettings),
        !.consoleOutput = filterConsoleOutput(@, privacySettings),
        !.networkActivity = filterNetworkActivity(@, privacySettings),
        !.stackTrace = filterStackTrace(@, privacySettings),
        !.sourceLocation = filterSourceLocation(@, privacySettings)]

\* what getPrivacySettings can read from the configuration; the defaults
\* are TRUE, FALSE, TRUE, 1000, 20, 50, "medium"
PrivacySettingsChoices ==
    { [redactSensitiveVariables |-> redact, redactFileContents |-> o[1],
       redactNetworkData |-> o[2], maxVariableValueLength |-> max,
       maxStackFrames |-> o[3], maxConsoleEntries |-> o[4],
       sensitivityLevel |-> level] :
         redact \in BOOLEAN, max \in {5, 12, 1000},
         level \in {"low", "medium", "high"},
         o \in {<<FALSE, TRUE, 20, 50>>, <<TRUE, TRUE, 2, 2>>,
                <<TRUE, FALSE, 20, 2>>} }

Variable(name, value) == [name |-> name, value |-> value, isRedacted |-> FALSE]

\* variables as ContextCollector.processDebugVariable hands them on: not
\* redacted, or redacted with the marker for a value
VariablePool ==
    { Variable("password", Str("secret123")),
      Variable("count", Str("42")),
      Variable("note", Str("my Token is abc")),
      Variable("text", Str("abcdefghijklmnopqrst")),
      Variable("userName", Str("bob")),
      Variable("config", Obj(<< Prop("apiKey", Str("k1")), Prop("port", Str("80")) >>)),
      [name |-> "apiToken", value |-> Str(REDACTED), isRedacted |-> TRUE] }

VariableLists == UNION {[1..n -> VariablePool] : n \in 0..MaxVars}

Log(message) == [level |-> "log", message |-> message]
Frame(file) == [name |-> "run", file |-> file]
Location(file) == [file |-> file, line |-> 1]

ConsoleSample ==
    << Log("login ok"),
       Log("password: hunter2 sent"),
       Log("Auth= token:abc KEY = v id:7") >>

NetworkSample ==
    << [url |-> "/api/login",
        headers |-> << Prop("Authorization", "Bearer abc"), Prop("Accept", "json") >>,
        requestBody |-> Obj(<< Prop("password", Str("pw")), Prop("q", Str("x")) >>),
        responseBody |-> Obj(<< Prop("token", Str("t1")), Prop("ok", Str("yes")) >>)],
       [url |-> "/items",
        headers |-> << Prop("X-Api-Key", "k") >>,
        requestBody |-> Arr(<< Str("my secret"), Str("b") >>),
        responseBody |-> Str("token=abc")],
       [url |-> "/ping", headers |-> <<>>, requestBody |-> None,
        responseBody |-> None] >>

StackSample ==
    << Frame("/Users/alice/app/main.js"),
       Frame("/home/bob/lib.js"),
       Frame("C:\\Users\\carol\\x.js") >>

\* the rest of a context: console output, network activity, stack trace
\* and source location
RestChoices ==
    { [consoleOutput |-> <<>>, networkActivity |-> <<>>, stackTrace |-> <<>>,
       sourceLocation |-> Location("unknown")],
      [consoleOutput |-> <<>>, networkActivity |-> NetworkSample,
       stackTrace |-> <<Frame("/srv/app.js")>>,
       sourceLocation |-> Location("/srv/app.js")],
      [consoleOutput |-> ConsoleSample, networkActivity |-> NetworkSample,
       stackTrace |-> StackSample,
       sourceLocation |-> Location("/Users/alice/app/main.js")] }

NewContext(variables, rest) ==
    [variables |-> variables, consoleOutput |-> rest.consoleOutput,
     networkActivity |-> rest.networkActivity, stackTrace |-> rest.stackTrace,
     sourceLocation |-> rest.sourceLocation]

\* applyPrivacyFilters has not been called
NoFilter == [passes |-> 0]

-----------------------------------------------------------------------------
(* MiddlewareRegistry: the record collected for a request / response pair  *)

Sub(s, a, b) == IF a > b THEN "" ELSE SubSeq(s, a, b)

\* String.prototype.startsWith and includes
StartsWith(s, prefix) == MatchesAt(s, 1, prefix)
Includes(s, lit) == \E i \in 1..Len(s) : MatchesAt(s, i, lit)

\* Array.prototype.includes on a sequence
InList(list, x) == \E i \in 1..Len(list) : list[i] = x

\* the first position from i on of a character of chars; Len(s) + 1 if none
RECURSIVE IndexOfAny(_, _, _)
IndexOfAny(s, i, chars) ==
    IF i > Len(s) THEN Len(s) + 1
    ELSE IF CharAt(s, i) \in chars THEN i
    ELSE IndexOfAny(s, i + 1, chars)

\* the last position of a character of chars at or before i; 0 if none
RECURSIVE LastIndexOfAny(_, _, _)
LastIndexOfAny(s, i, chars) ==
    IF i < 1 THEN 0
    ELSE IF CharAt(s, i) \in chars THEN i
    ELSE LastIndexOfAny(s, i - 1, chars)

getDefaultConfig ==
    [enabled |-> TRUE,
     captureRequestBody |-> TRUE,
     captureResponseBody |-> TRUE,
     maxBodySize |-> 10000,
     excludeUrls |-> << "chrome-extension://", "vscode-webview://", "data:", "blob:" >>,
     includeHeaders |-> << "content-type", "authorization", "x-api-key", "user-agent" >>]

\* a header name holding one of the terms for which filterHeaders redacts
SensitiveHeaderName(lowerKey) ==
    \/ Includes(lowerKey, "authorization")
    \/ Includes(lowerKey, "key")
    \/ Includes(lowerKey, "token")

\* filterHeaders that keeps the value of every header it lets through
filterHeaders_KeepValues(headers, cfg) ==
    SelectSeq(headers, LAMBDA h : InList(cfg.includeHeaders, ToLower(h.key)))

\* MiddlewareRegistry.filterHeaders; headers are the entries of the object
filterHeaders(headers, cfg) ==
    LET kept == SelectSeq(headers,
                          LAMBDA h : InList(cfg.includeHeaders, ToLower(h.key)))
    IN  [i \in 1..Len(kept) |->
            IF SensitiveHeaderName(ToLower(kept[i].key))
            THEN Prop(kept[i].key, REDACTED)
            ELSE kept[i]]

\* the length of JSON.stringify(value) (no character of the values modelled
\* needs an escape)
RECURSIVE JsonLength(_)
RECURSIVE JsonLengthSum(_, _)
JsonLengthSum(props, isArray) ==
    IF Len(props) = 0 THEN 0
    ELSE (IF isArray THEN JsonLength(Head(props))
          ELSE Len(Head(props).key) + 3 + JsonLength(Head(props).value))
         + (IF Len(props) > 1 THEN 1 ELSE 0)
         + JsonLengthSum(Tail(props), isArray)

JsonLength(value) ==
    CASE value.kind = "string" -> Len(value.s) + 2
      [] value.kind = "none" -> 4
      [] value.kind = "array" -> 2 + JsonLengthSum(value.props, TRUE)
      [] value.kind = "object" -> 2 + JsonLengthSum(value.props, FALSE)

\* a property name for which redactSensitiveData redacts
SensitiveBodyKey(lowerKey) ==
    \/ Includes(lowerKey, "password")
    \/ Includes(lowerKey, "token")
    \/ Includes(lowerKey, "secret")
    \/ Includes(lowerKey, "key")

\* redactSensitiveData that looks at the properties of the body only, not
\* at those of nested objects
redactSensitiveData_TopLevelOnly(obj) ==
    IF obj.kind = "object"
    THEN Obj([i \in 1..Len(obj.props) |->
                 IF SensitiveBodyKey(ToLower(obj.props[i].key))
                 THEN Prop(obj.props[i].key, Str(REDACTED))
                 ELSE obj.props[i]])
    ELSE obj

\* MiddlewareRegistry.redactSensitiveData
RECURSIVE redactSensitiveData(_)
redactSensitiveData(obj) ==
    IF obj.kind = "array"
    THEN Arr([i \in 1..Len(obj.props) |-> redactSensitiveData(obj.props[i])])
    ELSE IF obj.kind = "object"
    THEN Obj([i \in 1..Len(obj.props) |->
                 IF SensitiveBodyKey(ToLower(obj.props[i].key))
                 THEN Prop(obj.props[i].key, Str(REDACTED))
                 ELSE IF obj.props[i].value.kind \in {"object", "array", "none"}
                 THEN Prop(obj.props[i].key, redactSensitiveData(obj.props[i].value))
                 ELSE obj.props[i]])
    ELSE obj

\* MiddlewareRegistry.filterBody; None stands for undefined
filterBody(body, type, cfg) ==
    LET shouldCapture == IF type = "request" THEN cfg.captureRequestBody
                         ELSE cfg.captureResponseBody
        length == IF body.kind = "string" THEN Len(body.s) ELSE JsonLength(body)
    IN  IF ~shouldCapture \/ Falsy(body) THEN None
        ELSE IF length > cfg.maxBodySize
        THEN Str("[TRUNCATED: Body too large (" \o ToString(length) \o " bytes)]")
        ELSE IF body.kind \in {"object", "array"} THEN redactSensitiveData(body)
        ELSE body

Letters ==
    {"a", "b", "c", "d", "e", "f", "g", "h", "i", "j", "k", "l", "m",
     "n", "o", "p", "q", "r", "s", "t", "u", "v", "w", "x", "y", "z"}
Digits == {"0", "1", "2", "3", "4", "5", "6", "7", "8", "9"}

\* the schemes whose URLs always have a host
SpecialSchemes == {"http", "https", "ws", "wss", "ftp"}

ValidScheme(scheme) ==
    /\ scheme # ""
    /\ LowerChar(CharAt(scheme, 1)) \in Letters
    /\ \A i \in 1..Len(scheme) :
          LowerChar(CharAt(scheme, i)) \in Letters \cup Digits \cup {"+", "-", "."}

\* the position behind the slashes that follow the colon of a special scheme
RECURSIVE SkipSlashes(_, _)
SkipSlashes(s, i) ==
    IF i <= Len(s) /\ CharAt(s, i) \in {"/", "\\"} THEN SkipSlashes(s, i + 1) ELSE i

\* new URL(url) without a base, for URLs whose host is a name or a dotted
\* quad: ok is FALSE when the constructor throws, hostname is the hostname
\* of the URL object (lower case for a special scheme, empty for a URL
\* without authority)
ParseURL(url) ==
    LET colon == IndexOfAny(url, 1, {":"})
        scheme == ToLower(Sub(url, 1, colon - 1))
        special == scheme \in SpecialSchemes
        start == IF special THEN SkipSlashes(url, colon + 1)
                 ELSE IF MatchesAt(url, colon + 1, "//") THEN colon + 3
                 ELSE 0
        stop == IndexOfAny(url, start,
                           IF special THEN {"/", "?", "#", "\\"} ELSE {"/", "?", "#"})
        authority == Sub(url, start, stop - 1)
        at == LastIndexOfAny(authority, Len(authority), {"@"})
        hostport == Sub(authority, at + 1, Len(authority))
        portColon == IndexOfAny(hostport, 1, {":"})
        host == Sub(hostport, 1, portColon - 1)
        port == Sub(hostport, portColon + 1, Len(hostport))
        failure == [ok |-> FALSE, hostname |-> ""]
    IN  IF colon > Len(url) \/ ~ValidScheme(Sub(url, 1, colon - 1)) THEN failure
        ELSE IF start = 0 THEN [ok |-> TRUE, hostname |-> ""]
        ELSE IF \E i \in 1..Len(port) : CharAt(port, i) \notin Digits THEN failure
        ELSE IF \E i \in 1..Len(host) : CharAt(host, i) \in {" ", "<", ">", "^", "|"}
        THEN failure
        ELSE IF special /\ host = "" THEN failure
        ELSE [ok |-> TRUE, hostname |-> IF special THEN ToLower(host) ELSE host]

\* MiddlewareRegistry.extractDomain
extractDomain(url) ==
    LET parsed == ParseURL(url)
    IN  IF parsed.ok THEN parsed.hostname ELSE "unknown"

\* isExternalRequest that takes a URL it cannot parse for an external one
isExternalRequest_UnparsedExternal(url, cfg) ==
    IF \E i \in 1..Len(cfg.excludeUrls) : StartsWith(url, cfg.excludeUrls[i])
    THEN FALSE
    ELSE ParseURL(url).hostname \notin {"localhost", "127.0.0.1", "0.0.0.0"}

\* MiddlewareRegistry.isExternalRequest
isExternalRequest(url, cfg) ==
    IF \E i \in 1..Len(cfg.excludeUrls) : StartsWith(url, cfg.excludeUrls[i])
    THEN FALSE
    ELSE LET urlObj == ParseURL(url)
         IN  IF urlObj.ok
             THEN urlObj.hostname \notin {"localhost", "127.0.0.1", "0.0.0.0"}
             ELSE FALSE

\* categorizeRequest with the websocket test ahead of the static one
categorizeRequest_WebsocketFirst(request) ==
    LET url == ToLower(request.url)
        method == ToUpper(request.method)
    IN  IF Includes(url, "/api/") THEN "api"
        ELSE IF Includes(url, "/graphql") THEN "graphql"
        ELSE IF Includes(url, "/auth") \/ Includes(url, "/login") THEN "authentication"
        ELSE IF method = "POST" /\ Includes(url, "/upload") THEN "file_upload"
        ELSE IF Includes(url, "/websocket") \/ Includes(url, "/ws/") THEN "websocket"
        ELSE IF method = "GET" /\ (\/ Includes(url, ".js")
                                   \/ Includes(url, ".css")
                                   \/ Includes(url, ".png")) THEN "static_resource"
        ELSE "general"

\* MiddlewareRegistry.categorizeRequest
categorizeRequest(request) ==
    LET url == ToLower(request.url)
        method == ToUpper(request.method)
    IN  IF Includes(url, "/api/") THEN "api"
        ELSE IF Includes(url, "/graphql") THEN "graphql"
        ELSE IF Includes(url, "/auth") \/ Includes(url, "/login") THEN "authentication"
        ELSE IF method = "POST" /\ Includes(url, "/upload") THEN "file_upload"
        ELSE IF method = "GET" /\ (\/ Includes(url, ".js")
                                   \/ Includes(url, ".css")
                                   \/ Includes(url, ".png")) THEN "static_resource"
        ELSE IF Includes(url, "/websocket") \/ Includes(url, "/ws/") THEN "websocket"
        ELSE "general"

\* the NetworkData object that collectNetworkData builds; n numbers the
\* records pushed on the buffer
NetworkDataOf(request, response, cfg, n, timestamp) ==
    [n |-> n,
     method |-> request.method,
     url |-> request.url,
     headers |-> filterHeaders(request.headers, cfg),
     requestBody |-> filterBody(request.body, "request", cfg),
     responseStatus |-> response.status,
     responseBody |-> filterBody(response.body, "response", cfg),
     duration |-> response.duration,
     timestamp |-> timestamp,
     domain |-> extractDomain(request.url),
     isExternal |-> isExternalRequest(request.url, cfg),
     category |-> categorizeRequest(request)]


-----------------------------------------------------------------------------
Init ==
    /\ now = 1
    /\ activeSessions = {}
    /\ stoppedSessions = {}
    /\ sessionHistory = [s \in Sessions |-> <<>>]
    /\ dpOrder = <<>>
    /\ dpHistory = [s \in Sessions |-> <<>>]
    /\ tasks = {}
    /\ arrived = [s \in Sessions |-> 0]
    /\ ev = <<>>
    /\ conBuf = <<>>
    /\ conAppended = 0
    /\ netBuf = <<>>
    /\ netAppended = 0
    /\ lastOp = [op |-> "none", policy |-> NoPolicy, at |-> 0, flip |-> FALSE]
    /\ filt = NoFilter
    /\ config = getDefaultConfig
    /\ middlewares = <<>>
    /\ eventListeners = <<>>
    /\ aiModeEnabled = FALSE

\* a session the debug adapter can send a message for
Tracked == activeSessions \cup stoppedSessions

Next ==
    \/ \E s \in Sessions : StartSession(s)
    \/ \E s \in Sessions : StopSession(s)
    \/ TotalArrived < MaxEvents /\ \E s \in Tracked, r \in StopReasons : StoppedEvent(s, r)
    \/ TotalArrived < MaxEvents /\ \E s \in Tracked, b \in BOOLEAN : OutputEvent(s, b)
    \/ TotalArrived < MaxEvents /\ \E s \in Tracked : onBreakpoint(s, TRUE)
    \/ TotalArrived < MaxEvents /\ \E s \in Tracked, st \in StepTypes : onStepComplete(s, st)
    \/ \E t \in tasks, found \in BOOLEAN : ThreadResponse(t, found)
    \/ \E t \in tasks, frames \in StackChoices : StackResponse(t, frames)
    \/ \E t \in tasks, vs \in VarChoices : VarsResponse(t, vs)
    \/ \E t \in tasks, ok \in BOOLEAN : AIResponse(t, ok)

Spec == Init /\ [][Next]_vars

-----------------------------------------------------------------------------
(* Long sequential ingestion: SpecHist.  Step events are delivered one at  *)
(* a time to started sessions, each completing before the next arrives,    *)
(* so that the history limits are reached.                                 *)

NextHist ==
    \/ \E s \in Sessions : StartSession(s)
    \/ /\ TotalArrived < MaxHistEvents
       /\ tasks = {}
       /\ \E s \in activeSessions : onStepComplete(s, "stepOver")
    \/ \E t \in tasks : StackResponse(t, <<>>)

SpecHist == Init /\ [][NextHist]_vars

\* number of events of session s whose context was pushed on its history
Committed(s) ==
    Cardinality({k \in DOMAIN ev : k[1] = s /\ ev[k].status = "committed"})

\* h holds the contexts numbered n-Len(h)+1 .. n of its session, in order
HoldsLatest(h, n, limit) ==
    /\ Len(h) = Min(n, limit)
    /\ \A i \in 1..Len(h) : h[i].seq = n - Len(h) + i

\* C1 (as stated): after any sequence of ingested events every session's
\* context history, the session manager's and the data processor's, holds
\* at most 50 contexts.
C1_HistoryAtMost50 ==
    \A s \in Sessions :
        /\ Len(sessionHistory[s]) <= 50
        /\ Len(dpHistory[s]) <= 50

\* C1 (amended): the session manager's history of a session holds the
\* latest min(n, 50) of its n ingested contexts and the data processor's
\* history the latest min(n, 100), in ingestion order: on overflow the
\* oldest context is evicted and the newest kept.
C1_HistoryBounded ==
    \A s \in Sessions :
        /\ HoldsLatest(sessionHistory[s], Committed(s), 50)
        /\ HoldsLatest(dpHistory[s], Committed(s), 100)

\* both limits were exceeded for one session while another has history
C1_Witness ==
    \E s \in Sessions, u \in Sessions :
        /\ s # u
        /\ Committed(s) > 100
        /\ Len(dpHistory[s]) = 100 /\ Len(sessionHistory[s]) = 50
        /\ Len(sessionHistory[u]) > 0

-----------------------------------------------------------------------------
(* The bounded buffers: SpecBuf.  The console buffer (ContextCollector)    *)
(* and the network buffer (MiddlewareRegistry) belong to different objects *)
(* and share no state; a run fills one of them at a time, and a clear      *)
(* starts the numbering of the entries again.                              *)

\* ContextCollector.collectConsoleOutput, called on its own
collectConsoleOutput ==
    /\ conBuf' = addToConsoleBuffer(conBuf, [n |-> conAppended + 1, timestamp |-> now])
    /\ conAppended' = conAppended + 1
    /\ UNCHANGED <<now, activeSessions, stoppedSessions, sessionHistory,
                   dpOrder, dpHistory, tasks, arrived, ev, netBuf,
                   netAppended, lastOp, filt,
                   config, middlewares, eventListeners, aiModeEnabled>>

\* MiddlewareRegistry.collectNetworkData: the record is buffered; of the
\* record, its number and its timestamp are kept
collectNetworkData ==
    /\ netBuf' = addToBuffer(netBuf, [n |-> netAppended + 1, timestamp |-> now])
    /\ netAppended' = netAppended + 1
    /\ UNCHANGED <<now, activeSessions, stoppedSessions, sessionHistory,
                   dpOrder, dpHistory, tasks, arrived, ev, conBuf,
                   conAppended, lastOp, filt, config, middlewares, eventListeners, aiModeEnabled>>

clearConsoleBuffer ==
    /\ conAppended > 0
    /\ conBuf' = <<>>
    /\ conAppended' = 0
    /\ UNCHANGED <<now, activeSessions, stoppedSessions, sessionHistory,
                   dpOrder, dpHistory, tasks, arrived, ev, netBuf,
                   netAppended, lastOp, filt,
                   config, middlewares, eventListeners, aiModeEnabled>>

clearNetworkBuffer ==
    /\ netAppended > 0
    /\ netBuf' = <<>>
    /\ netAppended' = 0
    /\ UNCHANGED <<now, activeSessions, stoppedSessions, sessionHistory,
                   dpOrder, dpHistory, tasks, arrived, ev, conBuf,
                   conAppended, lastOp, filt, config, middlewares, eventListeners, aiModeEnabled>>

NextBuf ==
    \/ netAppended = 0 /\ conAppended < MaxAppends /\ collectConsoleOutput
    \/ conAppended = 0 /\ netAppended < MaxAppends /\ collectNetworkData
    \/ clearConsoleBuffer
    \/ clearNetworkBuffer

SpecBuf == Init /\ [][NextBuf]_vars

\* buf holds the entries numbered n-Len(buf)+1 .. n, in append order
BufferHoldsLatest(buf, n, capacity) ==
    /\ Len(buf) = Min(n, capacity)
    /\ \A i \in 1..Len(buf) : buf[i].n = n - Len(buf) + i

\* C2: after any sequence of appends and clears, the console buffer and
\* the network-activity buffer (capacity 1000) have length <= capacity and
\* hold exactly the most recent min(n, capacity) appended entries in append
\* order.
C2_BuffersHoldLatest ==
    /\ Len(conBuf) <= 1000 /\ BufferHoldsLatest(conBuf, conAppended, 1000)
    /\ Len(netBuf) <= 1000 /\ BufferHoldsLatest(netBuf, netAppended, 1000)

\* 1005 sequential network records: 1000 entries, records 6..1005
C2_Witness ==
    /\ netAppended = 1005
    /\ Len(netBuf) = 1000
    /\ netBuf[1].n = 6 /\ netBuf[1000].n = 1005

-----------------------------------------------------------------------------
(* Claims about the handlers (Spec) *)

Increasing(h) == \A i \in 1..Len(h), j \in 1..Len(h) : i < j => h[i].seq < h[j].seq

\* C3 (as stated): for a single session, contexts appear in that session's
\* history in the order in which their events arrived, for every
\* interleaving of the asynchronous event handlers.
C3_ArrivalOrder == \A s \in Sessions : Increasing(sessionHistory[s])

EventKinds == {"breakpoint", "exception", "step", "console"}

\* C4 (as stated): every debug event delivered for an active session
\* (breakpoint, exception, step of any step type, console output) results
\* in a context appended to that session's history, also when reading its
\* thread, stack trace or variables fails.  Checked for the events whose
\* handler has returned while the session is still active; an output event
\* with blank text is not counted as an event.
C4_NoEventLost ==
    \A k \in DOMAIN ev :
        (k[1] \in activeSessions /\ ev[k].kind \in EventKinds)
            => ev[k].status \notin {"lost", "skipped"}

\* the escalation decision as the claim words it
Escalates(eventType, nvars, exception, highPriority) ==
    \/ eventType = "exception"
    \/ highPriority
    \/ eventType = "breakpoint" /\ (nvars > 0 \/ exception)
    \/ eventType = "step" /\ exception

\* C9: shouldAnalyzeContext(context, highPriority) is true for every
\* exception event and whenever highPriority is set, for a breakpoint event
\* iff the context carries a variable or an exception, for a step event iff
\* an exception is attached, false otherwise, whatever the stack and
\* variables; and the analysis client is invoked for an event only when the
\* decision is true.
C9_EscalationDecision ==
    /\ \A et \in EventKinds, vs \in VarChoices, st \in StackChoices,
          ex \in BOOLEAN, hp \in BOOLEAN :
          shouldAnalyzeContext([eventType |-> et, variables |-> vs,
                                stackTrace |-> st, exception |-> ex], hp)
              = Escalates(et, Len(vs), ex, hp)
    /\ \A k \in DOMAIN ev :
          /\ ev[k].decision # "none" =>
                ((ev[k].decision = "yes") =
                    Escalates(ev[k].eventType, ev[k].nvars, ev[k].exception,
                              ev[k].highPriority))
          /\ ev[k].requested => ev[k].decision = "yes"

\* a breakpoint with a variable was sent to the analysis client and a
\* breakpoint without one was not
C9_Witness ==
    \E k \in DOMAIN ev, j \in DOMAIN ev :
        /\ ev[k].eventType = "breakpoint" /\ ev[k].nvars > 0 /\ ev[k].requested
        /\ ev[j].eventType = "breakpoint" /\ ev[j].nvars = 0
        /\ ev[j].status = "committed" /\ ~ev[j].requested

\* C10: a step event with no exception attached is never escalated: the
\* decision is false for it and no analysis request is sent for it.
C10_StepNotEscalated ==
    /\ \A vs \in VarChoices, st \in StackChoices :
          ~shouldAnalyzeContext([eventType |-> "step", variables |-> vs,
                                 stackTrace |-> st, exception |-> FALSE], FALSE)
    /\ \A k \in DOMAIN ev :
          (ev[k].kind = "step" /\ ~ev[k].exception)
              => (ev[k].decision # "yes" /\ ~ev[k].requested)

\* a step event was committed to the history and not escalated
C10_Witness ==
    \E k \in DOMAIN ev :
        /\ ev[k].kind = "step" /\ ev[k].status = "committed"
        /\ ev[k].decision = "no" /\ ~ev[k].requested

-----------------------------------------------------------------------------
(* Claims about concurrent handler invocations and stopped sessions (Spec) *)

\* some invocation of processAndAnalyzeContext awaits the analysis client
AwaitingAnalysis == \E t \in tasks : t.pc = "ai"

\* the history of session s has one more context after this step (or stays
\* at the limit)
Appends(s) ==
    Len(sessionHistory'[s]) = Min(Len(sessionHistory[s]) + 1, SessionHistoryLimit)

\* C11: escalation never blocks ingestion.  While the event of one
\* invocation awaits the analysis client, an event for the same or for
\* another session can still be delivered and starts its collection, a
\* console event of an active session is appended at once, and every
\* collection in flight for an active session can complete and append its
\* context.
C11_IngestionNotBlocked ==
    AwaitingAnalysis =>
        /\ \A s \in Tracked :
              /\ ENABLED (onBreakpoint(s, TRUE) /\ tasks' # tasks)
              /\ ENABLED (onStepComplete(s, "stepOver") /\ tasks' # tasks)
              /\ ENABLED (StoppedEvent(s, "exception") /\ tasks' # tasks)
        /\ \A s \in activeSessions :
              ENABLED (OutputEvent(s, FALSE) /\ Appends(s))
        /\ \A t \in tasks :
              /\ (t.pc = "thread") => ENABLED ThreadResponse(t, TRUE)
              /\ (t.pc = "stack" /\ t.hasFrame) => ENABLED StackResponse(t, <<>>)
              /\ (t.pc = "stack" /\ ~t.hasFrame /\ t.sid \in activeSessions)
                    => ENABLED (StackResponse(t, <<>>) /\ Appends(t.sid))
              /\ (t.pc = "vars" /\ t.sid \in activeSessions)
                    => ENABLED (VarsResponse(t, <<>>) /\ Appends(t.sid))

\* an invocation still awaits the analysis client, and the history of its
\* session holds, after its context, the context of an event that arrived
\* later
C11_Witness ==
    \E t \in tasks :
        /\ t.pc = "ai"
        /\ LET h == sessionHistory[t.sid]
           IN  \E i, j \in 1..Len(h) :
                   /\ i < j
                   /\ h[i].seq = t.seq
                   /\ h[j].seq > t.seq

\* the context of event k is pushed on a session history in this step
Commits(k) ==
    /\ ev'[k].status = "committed"
    /\ k \in DOMAIN ev => ev[k].status # "committed"

\* C12: no event that arrives after stopSession appends a context to a
\* session history.  A step pushes the context of an event only if the
\* session of the event was active when the event arrived, and then on the
\* history of that session, which is still active; the history stopSession
\* cleared stays empty.
C12_NoAppendAfterStop ==
    [][/\ \A k \in DOMAIN ev' :
            Commits(k) =>
                /\ k[1] \in activeSessions
                /\ k \in DOMAIN ev => ev[k].status \in {"pending", "collecting"}
       /\ \A s \in Sessions :
            (s \notin activeSessions /\ s \notin activeSessions')
                => sessionHistory'[s] = sessionHistory[s]]_vars

\* a console event and a breakpoint event arrived for a stopped session:
\* the console event was rejected, the collection for the breakpoint event
\* is still under way, and the history of the session is empty
C12_Witness ==
    \E s \in stoppedSessions :
        /\ sessionHistory[s] = <<>>
        /\ \E k \in DOMAIN ev :
              k[1] = s /\ ev[k].kind = "console" /\ ev[k].status = "rejected"
        /\ \E t \in tasks :
              t.sid = s /\ t.pc = "vars" /\ ev[Key(t)].status = "late"

\* C13 (as stated): an ingestion in flight when its session is stopped
\* completes.  An event whose context is being collected, the collection
\* having started while the session was active, ends with its context
\* committed to the history.
C13_InFlightCompletes ==
    [][\A k \in DOMAIN ev :
          ev[k].status = "collecting"
              => ev'[k].status \in {"collecting", "committed"}]_vars

\* C14 (as stated): the result of an analysis request that completes
\* after its session was removed is discarded.  When the request of an
\* event settles with the session not in activeSessions, showInsights is
\* not called for the event.
C14_ResultDiscarded ==
    [][\A t \in tasks :
          (t.pc = "ai" /\ t \notin tasks' /\ t.sid \notin activeSessions)
              => ~ev'[Key(t)].shown]_vars

-----------------------------------------------------------------------------
(* Escalation to the end: SpecEscalation.  Breakpoint and exception events *)
(* are handed to onBreakpoint and onException while sessions start and     *)
(* stop.  getConfiguredAIProvider always resolves with a provider and      *)
(* sendDiagnosticRequest always settles (the client resolves at once with  *)
(* its response; a rejection is caught), so the continuation of each       *)
(* pending request is eventually run: weak fairness of AIResponse for      *)
(* every event.                                                            *)

EventKeys == Sessions \X (1..MaxEvents)

NextEscalation ==
    \/ \E s \in Sessions : StartSession(s)
    \/ \E s \in Sessions : StopSession(s)
    \/ TotalArrived < MaxEvents /\ \E s \in Tracked : onBreakpoint(s, TRUE)
    \/ TotalArrived < MaxEvents /\ \E s \in Tracked : onException(s)
    \/ \E t \in tasks : StackResponse(t, <<"main">>)
    \/ \E t \in tasks, vs \in VarChoices : VarsResponse(t, vs)
    \/ \E t \in tasks, ok \in BOOLEAN : AIResponse(t, ok)

SpecEscalation ==
    /\ Init /\ [][NextEscalation]_vars
    /\ \A k \in EventKeys :
          WF_vars(\E t \in tasks, ok \in BOOLEAN : Key(t) = k /\ AIResponse(t, ok))

\* C15: every escalated event eventually has showInsights called for it,
\* with the client's result or, when the request fails, with the local
\* fallback; no escalated event ends with nothing shown.
C15_EscalatedEventuallyShown ==
    \A k \in EventKeys :
        (k \in DOMAIN ev /\ ev[k].requested) ~> (k \in DOMAIN ev /\ ev[k].shown)

\* an exception event and a breakpoint event with variables were both
\* escalated and both shown, and nothing is pending
C15_Witness ==
    /\ tasks = {}
    /\ \E k1, k2 \in DOMAIN ev :
          /\ ev[k1].eventType = "exception" /\ ev[k1].requested /\ ev[k1].shown
          /\ ev[k2].eventType = "breakpoint" /\ ev[k2].requested /\ ev[k2].shown

-----------------------------------------------------------------------------
(* Retention: SpecRetention.  Contexts are handed to processContext with   *)
(* a timestamp of their own (or none), the clock advances, and             *)
(* cleanupOldData runs with any policy.                                    *)

Policies == [maxAge : 0..MaxAge, maxSize : 0..MaxSize]

\* DataProcessor.processContext called with {sessionId, timestamp}; a
\* timestamp of 0 stands for an absent one
processContext(s, timestamp) ==
    LET raw == [sessionId |-> s, seq |-> arrived[s] + 1,
                timestamp |-> timestamp, eventType |-> "breakpoint",
                stackTrace |-> <<>>, variables |-> <<>>,
                consoleOutput |-> <<>>, exception |-> FALSE]
    IN  /\ dpHistory' = [dpHistory EXCEPT ![s] = AddToHistory(@, ProcessContext(raw))]
        /\ dpOrder' = MapSetOrder(dpOrder, s)
        /\ arrived' = [arrived EXCEPT ![s] = @ + 1]
        /\ lastOp' = IngestOp
        /\ UNCHANGED <<now, activeSessions, stoppedSessions, sessionHistory,
                       tasks, ev, conBuf, conAppended, netBuf, netAppended, filt,
                   config, middlewares, eventListeners, aiModeEnabled>>

RECURSIVE CleanupLoop_KeepEmpty(_, _, _, _, _)
\* the loop with the filtered list stored whatever its length: no session
\* is deleted
CleanupLoop_KeepEmpty(todo, i, map, cutoffTime, maxSize) ==
    IF i > Len(todo) THEN map
    ELSE LET sessionId == todo[i]
             filteredContexts == SeqFilterTs(map.hist[sessionId], cutoffTime)
             sizeLimit == maxSize \div Len(map.order)
         IN  CleanupLoop_KeepEmpty(todo, i + 1,
                 [order |-> map.order,
                  hist |-> [map.hist EXCEPT
                              ![sessionId] = JsSlice(filteredContexts, -sizeLimit)]],
                 cutoffTime, maxSize)

RECURSIVE CleanupLoop(_, _, _, _, _)
\* the for-of loop of cleanupOldData over the entries of the map, from
\* entry i on: map is [order, hist], and map.order shrinks as keys are
\* deleted while todo, the keys still to visit, is fixed at the start
CleanupLoop(todo, i, map, cutoffTime, maxSize) ==
    IF i > Len(todo) THEN map
    ELSE LET sessionId == todo[i]
             filteredContexts == SeqFilterTs(map.hist[sessionId], cutoffTime)
             sizeLimit == maxSize \div Len(map.order)
             next ==
                 IF Len(filteredContexts) = 0
                 THEN [order |-> SeqRemove(map.order, sessionId),
                       hist |-> [map.hist EXCEPT ![sessionId] = <<>>]]
                 ELSE [order |-> map.order,
                       hist |-> [map.hist EXCEPT
                                   ![sessionId] = JsSlice(filteredContexts, -sizeLimit)]]
         IN  CleanupLoop(todo, i + 1, next, cutoffTime, maxSize)

\* DataProcessor.cleanupOldData
cleanupOldData(retentionPolicy) ==
    LET cutoffTime == now - retentionPolicy.maxAge
        map == CleanupLoop(dpOrder, 1, [order |-> dpOrder, hist |-> dpHistory],
                           cutoffTime, retentionPolicy.maxSize)
    IN  /\ dpOrder' = map.order
        /\ dpHistory' = map.hist
        /\ lastOp' = [op |-> "cleanupOldData", policy |-> retentionPolicy,
                      at |-> now, flip |-> ~lastOp.flip]
        /\ UNCHANGED <<now, activeSessions, stoppedSessions, sessionHistory,
                       tasks, arrived, ev, conBuf, conAppended, netBuf,
                       netAppended, filt,
                   config, middlewares, eventListeners, aiModeEnabled>>

NextRetention ==
    \/ /\ TotalArrived < MaxRetEvents
       /\ \E s \in Sessions, ts \in 0..now : processContext(s, ts)
    \/ Tick
    \/ \E p \in Policies : cleanupOldData(p)

SpecRetention == Init /\ [][NextRetention]_vars

\* this step is a cleanupOldData call
IsCleanup == lastOp'.flip # lastOp.flip

\* C7 (as stated): two consecutive cleanupOldData calls with the same
\* policy, the same clock reading and no intervening ingestion leave the
\* per-session history map in exactly the state the first call produced.
C7_EvictionIdempotent ==
    [][(/\ IsCleanup
        /\ lastOp.op = "cleanupOldData"
        /\ lastOp'.policy = lastOp.policy
        /\ lastOp'.at = lastOp.at)
          => (dpHistory' = dpHistory /\ dpOrder' = dpOrder)]_vars

IsSuffix(a, b) == Len(a) <= Len(b) /\ a = SubSeq(b, Len(b) - Len(a) + 1, Len(b))

\* the contexts of h not older than the cutoff, and those newer than it
NotOlder(h, cutoff) == SelectSeq(h, LAMBDA c : c.timestamp >= cutoff)
Newer(h, cutoff) == SelectSeq(h, LAMBDA c : c.timestamp > cutoff)

\* C8 (as stated): cleanupOldData(policy) drops from every session exactly
\* the contexts older than now - maxAge: every context whose timestamp is
\* not older than now - maxAge is kept (as long as the per-session share of
\* the size budget is not exceeded) and every older context is removed.
C8_DropsExactlyOlder ==
    [][IsCleanup =>
        \A s \in Sessions :
            LET cutoff == now - lastOp'.policy.maxAge
                keep == NotOlder(dpHistory[s], cutoff)
            IN  /\ IsSuffix(dpHistory'[s], keep)
                /\ (dpOrder # <<>> /\ Len(keep) <= lastOp'.policy.maxSize \div Len(dpOrder))
                      => dpHistory'[s] = keep]_vars

\* C8 (amended): cleanupOldData(policy) keeps of every session only
\* contexts with timestamp > now - maxAge, all of them as long as the
\* per-session share of the size budget is not exceeded; every context
\* with timestamp <= now - maxAge, one exactly maxAge old included, is
\* removed, and a session with no newer context leaves the map.
C8_DropsNotNewer ==
    [][IsCleanup =>
        \A s \in Sessions :
            LET cutoff == now - lastOp'.policy.maxAge
                keep == Newer(dpHistory[s], cutoff)
            IN  /\ IsSuffix(dpHistory'[s], keep)
                /\ (dpOrder # <<>> /\ Len(keep) <= lastOp'.policy.maxSize \div Len(dpOrder))
                      => dpHistory'[s] = keep
                /\ InSeq(dpOrder', s) <=> (keep # <<>>)]_vars

\* a cleanup has just removed a session that held only old contexts and
\* kept the recent contexts of another
C8_Witness ==
    /\ lastOp.op = "cleanupOldData"
    /\ \E s \in Sessions, u \in Sessions :
          /\ arrived[s] > 0 /\ dpHistory[s] = <<>> /\ ~InSeq(dpOrder, s)
          /\ dpHistory[u] # <<>>
          /\ \A i \in 1..Len(dpHistory[u]) :
                dpHistory[u][i].timestamp > now - lastOp.policy.maxAge

\* C27 (as stated): after cleanupOldData(policy) every remaining session
\* holds at most its share floor(maxSize / number of live sessions) of
\* entries, so that the contexts stored across all sessions are never more
\* than maxSize, and the entries dropped for size are the oldest ones; for
\* every maxSize >= 0 and every number of sessions, more sessions than
\* maxSize included.
C27_WithinBudget ==
    [][IsCleanup =>
        /\ \A s \in Sessions :
              /\ InSeq(dpOrder', s) =>
                    Len(dpHistory'[s]) <= lastOp'.policy.maxSize \div Len(dpOrder')
              /\ IsSuffix(dpHistory'[s],
                          Newer(dpHistory[s], now - lastOp'.policy.maxAge))
        /\ SumOver([s \in Sessions |-> Len(dpHistory'[s])], Sessions)
              <= lastOp'.policy.maxSize]_vars

-----------------------------------------------------------------------------
(* The history map under ingestion, cleanup and clearing: SpecHistoryMap.  *)

\* DataProcessor.clearContextHistory(sessionId): the session is deleted
clearSessionHistory(sessionId) ==
    /\ dpOrder' = SeqRemove(dpOrder, sessionId)
    /\ dpHistory' = [dpHistory EXCEPT ![sessionId] = <<>>]
    /\ lastOp' = [op |-> "clearContextHistory", policy |-> NoPolicy, at |-> now,
                  flip |-> lastOp.flip]
    /\ UNCHANGED <<now, activeSessions, stoppedSessions, sessionHistory,
                   tasks, arrived, ev, conBuf, conAppended, netBuf,
                   netAppended, filt, config, middlewares, eventListeners, aiModeEnabled>>

\* DataProcessor.clearContextHistory(): the map is cleared
clearContextHistory ==
    /\ dpOrder' = <<>>
    /\ dpHistory' = [s \in Sessions |-> <<>>]
    /\ lastOp' = [op |-> "clearContextHistory", policy |-> NoPolicy, at |-> now,
                  flip |-> lastOp.flip]
    /\ UNCHANGED <<now, activeSessions, stoppedSessions, sessionHistory,
                   tasks, arrived, ev, conBuf, conAppended, netBuf,
                   netAppended, filt, config, middlewares, eventListeners, aiModeEnabled>>

NextHistoryMap ==
    \/ /\ TotalArrived < MaxRetEvents
       /\ \E s \in Sessions, ts \in 0..now : processContext(s, ts)
    \/ Tick
    \/ \E p \in Policies : cleanupOldData(p)
    \/ \E s \in Sessions : clearSessionHistory(s)
    \/ clearContextHistory

SpecHistoryMap == Init /\ [][NextHistoryMap]_vars

\* C28: after any sequence of ingests, cleanupOldData calls and
\* clearContextHistory calls the history map holds no session whose
\* history is empty: a session that a cleanup leaves with no entry is
\* removed from the map.
C28_NoEmptyHistory ==
    \A i \in 1..Len(dpOrder) : dpHistory[dpOrder[i]] # <<>>

\* a cleanup has left one session without an entry and removed it from
\* the map, while another session is still in the map
C28_Witness ==
    /\ lastOp.op = "cleanupOldData"
    /\ Len(dpOrder) = 1
    /\ \E s \in Sessions :
          /\ arrived[s] > 0
          /\ ~InSeq(dpOrder, s)
          /\ dpHistory[s] = <<>>
    /\ Len(dpHistory[dpOrder[1]]) >= 1

-----------------------------------------------------------------------------
(* Privacy filtering: SpecFilter.  A context is filtered under some        *)
(* settings, and the result is filtered again under the same settings.     *)

Others == <<now, activeSessions, stoppedSessions, sessionHistory, dpOrder,
            dpHistory, tasks, arrived, ev, conBuf, conAppended, netBuf,
            netAppended, lastOp, config, middlewares, eventListeners, aiModeEnabled>>

\* dataProcessor.applyPrivacyFilters(context) with the settings that
\* getPrivacySettings reads
FilterContext(privacySettings, context) ==
    /\ filt.passes = 0
    /\ filt' = [settings |-> privacySettings, original |-> context,
                input |-> context,
                output |-> applyPrivacyFilters(context, privacySettings),
                passes |-> 1]
    /\ UNCHANGED Others

\* applyPrivacyFilters on its own result, the settings unchanged
FilterAgain ==
    /\ filt.passes \in 1..(MaxPasses - 1)
    /\ filt' = [filt EXCEPT
                  !.input = filt.output,
                  !.output = applyPrivacyFilters(filt.output, filt.settings),
                  !.passes = @ + 1]
    /\ UNCHANGED Others

NextFilter ==
    \/ \E privacySettings \in PrivacySettingsChoices,
          variables \in VariableLists, rest \in RestChoices :
            FilterContext(privacySettings, NewContext(variables, rest))
    \/ FilterAgain

SpecFilter == Init /\ [][NextFilter]_vars

\* C5 (as stated): with variable redaction enabled, every variable whose
\* name or string value matches an active sensitive pattern comes out with
\* value '[REDACTED]' and isRedacted true, and every variable that comes
\* out with isRedacted true has the literal '[REDACTED]' for a value.
C5_SensitiveRedacted ==
    (filt.passes >= 1 /\ filt.settings.redactSensitiveVariables) =>
        \A i \in 1..Len(filt.input.variables) :
            LET v == filt.input.variables[i]
                o == filt.output.variables[i]
            IN  /\ isSensitiveVariable(v.name, v.value, filt.settings.sensitivityLevel)
                      => (o.value = Str(REDACTED) /\ o.isRedacted)
                /\ o.isRedacted => o.value = Str(REDACTED)

\* C6: filtering an already filtered context under the same settings
\* changes nothing, in variables, console output, network activity, stack
\* trace and source location.
C6_FilterIdempotent == filt.passes >= 2 => filt.output = filt.input

\* a context that the first filtering changed in every part (a long value
\* truncated) has been filtered a second time
C6_Witness ==
    /\ filt.passes = 2
    /\ filt.original.consoleOutput # filt.output.consoleOutput
    /\ filt.original.networkActivity # filt.output.networkActivity
    /\ filt.original.stackTrace # filt.output.stackTrace
    /\ filt.original.sourceLocation # filt.output.sourceLocation
    /\ \E j \in 1..Len(filt.output.variables) :
          /\ ~filt.output.variables[j].isRedacted
          /\ Len(filt.original.variables[j].value.s)
               > filt.settings.maxVariableValueLength
          /\ filt.output.variables[j].value
               = Str(truncate(filt.original.variables[j].value.s,
                              filt.settings.maxVariableValueLength))

\* the sensitivity levels, in increasing order
SensitivityLevels == << "low", "medium", "high" >>

PatternSet(sensitivityLevel) ==
    LET patterns == getSensitivePatterns(sensitivityLevel)
    IN  {patterns[k] : k \in 1..Len(patterns)}

AtLevel(settings, sensitivityLevel) ==
    [settings EXCEPT !.sensitivityLevel = sensitivityLevel]

\* C21: for sensitivity levels L1 < L2 (low < medium < high) the pattern
\* set at L1 is a subset of the set at L2, and every variable of the
\* filtered context that is classified sensitive, and so redacted, at L1
\* is classified sensitive and redacted at L2.
C21_LevelsMonotone ==
    filt.passes = 1 =>
        /\ \A a \in 1..Len(SensitivityLevels), b \in 1..Len(SensitivityLevels) :
              a < b => PatternSet(SensitivityLevels[a])
                         \subseteq PatternSet(SensitivityLevels[b])
        /\ \A i \in 1..Len(filt.original.variables) :
              LET v == filt.original.variables[i]
                  sensitive == [a \in 1..Len(SensitivityLevels) |->
                      isSensitiveVariable(v.name, v.value, SensitivityLevels[a])]
                  redacted == [a \in 1..Len(SensitivityLevels) |->
                      filterVariable(v, AtLevel(filt.settings,
                                                SensitivityLevels[a])).isRedacted]
              IN  \A a \in 1..Len(SensitivityLevels), b \in 1..Len(SensitivityLevels) :
                      a < b => /\ sensitive[a] => sensitive[b]
                               /\ redacted[a] => redacted[b]

\* a variable that is sensitive at the lowest level has been redacted by a
\* filtering at the highest level
C21_Witness ==
    /\ filt.passes = 1
    /\ filt.settings.redactSensitiveVariables
    /\ filt.settings.sensitivityLevel = "high"
    /\ \E i \in 1..Len(filt.original.variables) :
          LET v == filt.original.variables[i]
          IN  /\ ~v.isRedacted
              /\ isSensitiveVariable(v.name, v.value, "low")
              /\ filt.output.variables[i].isRedacted
              /\ filt.output.variables[i].value = Str(REDACTED)

\* the value ends with the truncation marker
Truncated(value) ==
    /\ value.kind = "string"
    /\ Len(value.s) >= Len(TRUNCATED)
    /\ MatchesAt(value.s, Len(value.s) - Len(TRUNCATED) + 1, TRUNCATED)

\* C29 (as stated): truncation and redaction exclude each other on a
\* variable, and redaction wins: for every variable and every configured
\* maxVariableValueLength the value of a redacted variable is exactly
\* '[REDACTED]', never truncated, and the truncation marker is put only on
\* the string value of a variable that is not redacted and is longer than
\* the cap.
C29_RedactionExcludesTruncation ==
    (filt.passes >= 1 /\ filt.settings.redactSensitiveVariables) =>
        \A i \in 1..Len(filt.input.variables) :
            LET v == filt.input.variables[i]
                o == filt.output.variables[i]
            IN  /\ o.isRedacted => (o.value = Str(REDACTED) /\ ~Truncated(o.value))
                /\ (Truncated(o.value) /\ ~Truncated(v.value)) =>
                      /\ ~o.isRedacted
                      /\ v.value.kind = "string"
                      /\ Len(v.value.s) > filt.settings.maxVariableValueLength

-----------------------------------------------------------------------------
(* Network records: SpecNetwork.  Request / response pairs are handed to   *)
(* collectNetworkData under the default configuration or under one loaded  *)
(* from the settings; lastOp keeps the arguments, the configuration and    *)
(* the returned record of the last call.                                   *)

Request(method, url, headers, body) ==
    [method |-> method, url |-> url, headers |-> headers, body |-> body]

Response(status, body) == [status |-> status, body |-> body, duration |-> 150]

\* the pair of the scenario: Authorization header, POST, api.example.com
ScenarioRequest ==
    Request("POST", "https://api.example.com/users",
            << Prop("Content-Type", "application/json"),
               Prop("Authorization", "Bearer abc") >>,
            Obj(<< Prop("name", Str("John")) >>))

NetworkPairs ==
    { <<ScenarioRequest, Response(201, Obj(<< Prop("id", Str("1")) >>))>>,
      <<Request("GET", "http://localhost:3000/x", <<>>, None),
        Response(200, None)>>,
      <<Request("GET", "http://127.0.0.1:8080/test",
                << Prop("X-API-Key", "k-123"), Prop("User-Agent", "App/1.0"),
                   Prop("Cookie", "sid=1") >>, None),
        Response(200, Str("ok"))>>,
      <<Request("get", "HTTP://LocalHost/app.js", <<>>, None),
        Response(200, Str("var a = 1; var b = 2; var c = 3;"))>>,
      <<Request("GET", "http://0.0.0.0:5000/api/items",
                << Prop("authorization", "Basic dXNlcg==") >>, None),
        Response(200, Arr(<< Str("a") >>))>>,
      <<Request("GET", "chrome-extension://abc123/page.html", <<>>, None),
        Response(200, None)>>,
      <<Request("GET", "vscode-webview://abc123", <<>>, None),
        Response(200, None)>>,
      <<Request("GET", "data:text/plain,hi", <<>>, None),
        Response(200, None)>>,
      <<Request("GET", "blob:https://example.com/1", <<>>, None),
        Response(200, None)>>,
      <<Request("GET", "/api/users", << Prop("X-Auth-Token", "t-1") >>, None),
        Response(404, None)>>,
      <<Request("POST", "https://example.com/login",
                << Prop("Accept", "json") >>,
                Obj(<< Prop("user", Str("al")),
                       Prop("password", Str("pw")),
                       Prop("meta", Obj(<< Prop("apiKey", Str("k")) >>)) >>)),
        Response(200, Obj(<< Prop("token", Str("t")) >>))>>,
      <<Request("GET", "https://127.0.0.2/ws/feed", <<>>, None),
        Response(101, None)>>,
      <<Request("POST", "/upload", <<>>,
                Arr(<< Obj(<< Prop("secretKey", Obj(<< Prop("a", Str("b")) >>)),
                              Prop("items",
                                   Arr(<< Obj(<< Prop("Token", Str("t")) >>),
                                          Str("u") >>)) >>) >>)),
        Response(200, Str(""))>> }

\* a configuration read from the settings
CustomConfig ==
    [enabled |-> TRUE,
     captureRequestBody |-> FALSE,
     captureResponseBody |-> TRUE,
     maxBodySize |-> 20,
     excludeUrls |-> << "https://example.com/" >>,
     includeHeaders |-> << "accept", "x-auth-token", "cookie" >>]

ConfigChoices == {getDefaultConfig, CustomConfig}

\* MiddlewareRegistry.loadConfiguration
loadConfiguration(cfg) ==
    /\ cfg # config
    /\ config' = cfg
    /\ UNCHANGED <<now, activeSessions, stoppedSessions, sessionHistory,
                   dpOrder, dpHistory, tasks, arrived, ev, conBuf,
                   conAppended, netBuf, netAppended, lastOp, filt,
                   middlewares, eventListeners, aiModeEnabled>>

\* MiddlewareRegistry.collectNetworkData: the record is built, pushed on
\* the buffer and returned (no listener is registered)
collectNetworkPair(request, response) ==
    LET networkData == NetworkDataOf(request, response, config, netAppended + 1, now)
    IN  /\ netBuf' = addToBuffer(netBuf, networkData)
        /\ netAppended' = netAppended + 1
        /\ lastOp' = [op |-> "collectNetworkData", policy |-> NoPolicy,
                      at |-> now, flip |-> lastOp.flip,
                      request |-> request, response |-> response,
                      config |-> config, result |-> networkData]
        /\ UNCHANGED <<now, activeSessions, stoppedSessions, sessionHistory,
                       dpOrder, dpHistory, tasks, arrived, ev, conBuf,
                       conAppended, filt, config, middlewares, eventListeners, aiModeEnabled>>

NextNetwork ==
    \/ /\ netAppended < MaxRequests
       /\ \E pair \in NetworkPairs : collectNetworkPair(pair[1], pair[2])
    \/ \E cfg \in ConfigChoices : loadConfiguration(cfg)
    \/ clearNetworkBuffer

SpecNetwork == Init /\ [][NextNetwork]_vars

\* the last step was a collectNetworkData call
Collected == lastOp.op = "collectNetworkData"

\* obj[key] for the entries of an object; "undefined" when there is none
ValueOf(entries, key) ==
    IF \E i \in 1..Len(entries) : entries[i].key = key
    THEN entries[CHOOSE i \in 1..Len(entries) : entries[i].key = key].value
    ELSE "undefined"

\* C16 (as stated): the pair with request header 'Authorization: Bearer
\* abc', method POST and URL 'https://api.example.com/users' yields a
\* record with headers.Authorization = '[REDACTED]', category 'api',
\* domain 'api.example.com' and isExternal true (default configuration).
C16_ScenarioRecord ==
    (/\ Collected
     /\ lastOp.request = ScenarioRequest
     /\ lastOp.config = getDefaultConfig)
        => /\ ValueOf(lastOp.result.headers, "Authorization") = "[REDACTED]"
           /\ lastOp.result.category = "api"
           /\ lastOp.result.domain = "api.example.com"
           /\ lastOp.result.isExternal = TRUE

\* the URL starts with one of the configured exclusion prefixes
Excluded(url, cfg) ==
    \E i \in 1..Len(cfg.excludeUrls) : StartsWith(url, cfg.excludeUrls[i])

LoopbackHosts == {"localhost", "127.0.0.1", "0.0.0.0"}

\* C17 (as stated): a collected request is external unless its URL starts
\* with a configured exclusion prefix or its host is a loopback host
\* (localhost, 127.0.0.1, 0.0.0.0): isExternal is false in exactly those
\* cases and true for every other URL.
C17_ExternalUnlessExcludedOrLoopback ==
    Collected =>
        LET url == lastOp.request.url
        IN  lastOp.result.isExternal =
                ~(\/ Excluded(url, lastOp.config)
                  \/ ParseURL(url).hostname \in LoopbackHosts)

\* C17 (amended): isExternal is false exactly when the URL starts with a
\* configured exclusion prefix, or cannot be parsed as an absolute URL, or
\* has a loopback host (localhost, 127.0.0.1, 0.0.0.0); it is true for
\* every other URL.
C17_ExternalUnlessExcludedUnparsedOrLoopback ==
    Collected =>
        LET url == lastOp.request.url
        IN  lastOp.result.isExternal =
                ~(\/ Excluded(url, lastOp.config)
                  \/ ~ParseURL(url).ok
                  \/ ParseURL(url).hostname \in LoopbackHosts)

\* 'http://localhost:3000/x' was collected as not external, and so was the
\* relative URL '/api/users' after it; under the default configuration
C17_Witness ==
    /\ Collected
    /\ lastOp.config = getDefaultConfig
    /\ lastOp.request.url = "/api/users"
    /\ ~lastOp.result.isExternal
    /\ \E i \in 1..Len(netBuf) :
          netBuf[i].url = "http://localhost:3000/x" /\ ~netBuf[i].isExternal

TruncationMarker(length) ==
    "[TRUNCATED: Body too large (" \o ToString(length) \o " bytes)]"

\* no property of `value`, at any depth, has a name containing password,
\* token, secret or key and a value other than '[REDACTED]'
RECURSIVE NoRawSensitive(_)
NoRawSensitive(value) ==
    CASE value.kind = "object" ->
            \A i \in 1..Len(value.props) :
                IF SensitiveBodyKey(ToLower(value.props[i].key))
                THEN value.props[i].value = Str("[REDACTED]")
                ELSE NoRawSensitive(value.props[i].value)
      [] value.kind = "array" ->
            \A i \in 1..Len(value.props) : NoRawSensitive(value.props[i])
      [] OTHER -> TRUE

\* `stored` is `body` with the values under sensitive names replaced and
\* everything else (names, order, other values) as in `body`
RECURSIVE CopyOf(_, _)
CopyOf(body, stored) ==
    CASE body.kind = "object" ->
            /\ stored.kind = "object"
            /\ Len(stored.props) = Len(body.props)
            /\ \A i \in 1..Len(body.props) :
                   /\ stored.props[i].key = body.props[i].key
                   /\ \/ SensitiveBodyKey(ToLower(body.props[i].key))
                      \/ CopyOf(body.props[i].value, stored.props[i].value)
      [] body.kind = "array" ->
            /\ stored.kind = "array"
            /\ Len(stored.props) = Len(body.props)
            /\ \A i \in 1..Len(body.props) :
                   CopyOf(body.props[i], stored.props[i])
      [] OTHER -> stored = body

\* what the record may hold for a body handed to collectNetworkData
StoredBody(body, stored, capture, maxBodySize) ==
    LET length == IF body.kind = "string" THEN Len(body.s) ELSE JsonLength(body)
    IN  IF ~capture \/ Falsy(body) THEN stored = None
        ELSE IF length > maxBodySize THEN stored = Str(TruncationMarker(length))
        ELSE CopyOf(body, stored) /\ NoRawSensitive(stored)

-----------------------------------------------------------------------------
(* ContextCollector: the log entry collected for a console message         *)

\* the escape character \x1b; a string of this module cannot hold it, and
\* the form feed, which no message modelled contains, stands for it
ESC == "\f"

\* ContextCollector.mapLogLevel
mapLogLevel(level) ==
    LET lowerLevel == ToLower(level)
    IN  CASE lowerLevel \in {"warning", "warn"} -> "warn"
          [] lowerLevel \in {"error", "err"} -> "error"
          [] lowerLevel \in {"information", "info"} -> "info"
          [] lowerLevel \in {"debug", "verbose"} -> "debug"
          [] OTHER -> "log"

\* the position behind the characters of chars that start at i
RECURSIVE SkipChars(_, _, _)
SkipChars(s, i, chars) ==
    IF i <= Len(s) /\ CharAt(s, i) \in chars THEN SkipChars(s, i + 1, chars) ELSE i

\* message.replace(/\x1b\[[0-9;]*m/g, '') from position i on
RECURSIVE StripAnsi(_, _)
StripAnsi(s, i) ==
    IF i > Len(s) THEN ""
    ELSE LET end == SkipChars(s, i + 2, Digits \cup {";"})
         IN  IF MatchesAt(s, i, ESC \o "[") /\ end <= Len(s) /\ CharAt(s, end) = "m"
             THEN StripAnsi(s, end + 1)
             ELSE CharAt(s, i) \o StripAnsi(s, i + 1)

\* String.prototype.trim
Trim(s) ==
    LET first == SkipSpaces(s, 1)
        last == CHOOSE j \in 0..Len(s) :
                    /\ j = 0 \/ ~IsSpace(CharAt(s, j))
                    /\ \A k \in (j + 1)..Len(s) : IsSpace(CharAt(s, k))
    IN  Sub(s, first, last)

\* the patterns of redactSensitiveLogContent, in order: the lower-case
\* spellings of the name, whether the pattern is the bearer pattern, and
\* the replacement
LogPattern(names, bearer, replacement) ==
    [names |-> names, bearer |-> bearer, replacement |-> replacement]

logPatterns ==
    << LogPattern({"password"}, FALSE, "password=[REDACTED]"),
       LogPattern({"token"}, FALSE, "token=[REDACTED]"),
       LogPattern({"key"}, FALSE, "key=[REDACTED]"),
       LogPattern({"authorization:"}, TRUE, "authorization: bearer [REDACTED]"),
       LogPattern({"apikey", "api_key", "api-key"}, FALSE, "api_key=[REDACTED]") >>

\* the position behind the match of the pattern that starts at position i
\* of low (a string in lower case), 0 when none starts there:
\*   name[=:]\s*[^\s]+   or   authorization:\s*bearer\s+[^\s]+
MatchEnd(low, i, pattern) ==
    LET names == {name \in pattern.names : MatchesAt(low, i, name)}
        j == i + Len(CHOOSE name \in names : TRUE)
        b == SkipSpaces(low, j)
        value == IF pattern.bearer THEN SkipSpaces(low, b + 6)
                 ELSE SkipSpaces(low, j + 1)
    IN  IF names = {} THEN 0
        ELSE IF pattern.bearer /\ ~(/\ MatchesAt(low, b, "bearer")
                                     /\ b + 6 <= Len(low)
                                     /\ IsSpace(CharAt(low, b + 6))) THEN 0
        ELSE IF ~pattern.bearer /\ ~(j <= Len(low) /\ CharAt(low, j) \in {"=", ":"})
        THEN 0
        ELSE IF value > Len(low) THEN 0
        ELSE SkipNonSpaces(low, value)

\* redactedMessage.replace(pattern, replacement) from position i on
RECURSIVE ReplaceLogPattern(_, _, _, _)
ReplaceLogPattern(s, low, i, pattern) ==
    IF i > Len(s) THEN ""
    ELSE LET end == MatchEnd(low, i, pattern)
         IN  IF end > 0
             THEN pattern.replacement \o ReplaceLogPattern(s, low, end, pattern)
             ELSE CharAt(s, i) \o ReplaceLogPattern(s, low, i + 1, pattern)

\* the for loop of redactSensitiveLogContent from the k-th pattern on
RECURSIVE RedactLoop(_, _)
RedactLoop(redactedMessage, k) ==
    IF k > Len(logPatterns) THEN redactedMessage
    ELSE RedactLoop(ReplaceLogPattern(redactedMessage, ToLower(redactedMessage),
                                      1, logPatterns[k]), k + 1)

\* ContextCollector.redactSensitiveLogContent
redactSensitiveLogContent(message) == RedactLoop(message, 1)

\* ContextCollector.sanitizeMessage
sanitizeMessage(message) == redactSensitiveLogContent(Trim(StripAnsi(message, 1)))

\* the LogEntry that collectConsoleOutput builds; n numbers the entries
\* pushed on the buffer, a timestamp of 0 is falsy
LogEntryOf(output, n, dateNow) ==
    [n |-> n,
     level |-> mapLogLevel(output.level),
     message |-> sanitizeMessage(output.text),
     timestamp |-> IF output.timestamp # 0 THEN output.timestamp ELSE dateNow,
     source |-> "console"]

-----------------------------------------------------------------------------
(* Console entries: SpecConsole.  Console messages with a timestamp of     *)
(* their own (or 0) are handed to collectConsoleOutput while the clock     *)
(* advances; lastOp keeps the argument and the returned entry of the last  *)
(* call.                                                                   *)

\* a message and the values that were assigned in it
Message(level, text, secrets) == [level |-> level, text |-> text, secrets |-> secrets]

MessagePool ==
    { Message("log", "Server started", {}),
      Message("info", "password=secret123", {"secret123"}),
      Message("WARN", "  Token: abc123 user=al ", {"abc123"}),
      Message("error", "api_key=sk-12 retry", {"sk-12"}),
      Message("debug", "Authorization: Bearer xyz789", {"xyz789"}),
      Message("log", ESC \o "[31mkey=k9" \o ESC \o "[0m done", {"k9"}),
      Message("log", "password = hunter2", {"hunter2"}) }

\* ContextCollector.collectConsoleOutput: the entry is built, pushed on the
\* buffer and returned
collectConsoleMessage(output) ==
    LET logEntry == LogEntryOf(output, conAppended + 1, now)
    IN  /\ conBuf' = addToConsoleBuffer(conBuf, logEntry)
        /\ conAppended' = conAppended + 1
        /\ lastOp' = [op |-> "collectConsoleOutput", policy |-> NoPolicy,
                      at |-> now, flip |-> lastOp.flip,
                      output |-> output, result |-> logEntry]
        /\ UNCHANGED <<now, activeSessions, stoppedSessions, sessionHistory,
                       dpOrder, dpHistory, tasks, arrived, ev, netBuf,
                       netAppended, filt, config, middlewares, eventListeners, aiModeEnabled>>

NextConsole ==
    \/ /\ conAppended < MaxMessages
       /\ \E m \in MessagePool, timestamp \in 0..MaxTime :
             collectConsoleMessage([level |-> m.level, text |-> m.text,
                                    timestamp |-> timestamp])
    \/ Tick
    \/ clearConsoleBuffer

SpecConsole == Init /\ [][NextConsole]_vars

\* the values assigned in a message text
SecretsOf(text) == UNION {m.secrets : m \in {x \in MessagePool : x.text = text}}

\* C19 (as stated): log messages are scrubbed before storage.  The entry
\* that a collectConsoleOutput call pushes on the console buffer is the
\* entry it returns, and no entry of the buffer, this one included, holds
\* the raw value of a password, token, key or api_key assignment or of an
\* 'authorization: bearer' credential of a collected message.
C19_BufferScrubbed ==
    /\ (lastOp.op = "collectConsoleOutput" /\ conBuf # <<>>) =>
          /\ conBuf[Len(conBuf)] = lastOp.result
          /\ \A secret \in SecretsOf(lastOp.output.text) :
                ~Includes(lastOp.result.message, secret)
    /\ \A i \in 1..Len(conBuf) :
          \A m \in MessagePool : \A secret \in m.secrets :
              ~Includes(conBuf[i].message, secret)

\* C20 (as stated): after any sequence of appends the console buffer is
\* time-ordered: the timestamp of every entry is not smaller than the
\* timestamp of the entry stored before it.
C20_TimeOrdered ==
    \A i \in 1..(Len(conBuf) - 1) :
        conBuf[i + 1].timestamp >= conBuf[i].timestamp

-----------------------------------------------------------------------------
(* Ingestion of incomplete events: SpecIngest.  processContext is handed   *)
(* raw contexts that lack any of their fields.  An object is a record of   *)
(* the properties it has: an absent property is outside its domain.  The   *)
(* value of an expression is kept with what || and a method call ask of    *)
(* it: whether it is undefined, and whether it is falsy.                   *)

Defined(value) == [undefined |-> FALSE, falsy |-> FALSE, value |-> value]
Undefined == [undefined |-> TRUE, falsy |-> TRUE, value |-> <<>>]

\* '' and 0 are falsy; objects and arrays (the empty one too) are not
FalsyField(rawContext, field) ==
    CASE field = "sessionId" -> rawContext.sessionId = ""
      [] field = "timestamp" -> rawContext.timestamp = 0
      [] field = "eventType" -> rawContext.eventType = ""
      [] OTHER -> FALSE

\* rawContext.field
Get(rawContext, field) ==
    IF field \in DOMAIN rawContext
    THEN [undefined |-> FALSE, falsy |-> FalsyField(rawContext, field),
          value |-> rawContext[field]]
    ELSE Undefined

\* a || b that yields its first operand whatever it is
Or_FirstOperand(a, default) == a

\* a || default, the default being truthy
Or(a, default) == IF a.falsy THEN Defined(default) ELSE a

\* Array.prototype.sort with a comparator that orders by a key (the sort
\* is stable): keys[i] is the key of s[i]
StableSort(s, keys) ==
    [j \in 1..Len(s) |->
        s[CHOOSE i \in 1..Len(s) :
            Cardinality({k \in 1..Len(s) :
                \/ keys[k] < keys[i]
                \/ (keys[k] = keys[i] /\ k < i)}) = j - 1]]

\* three negative look-aheads, one of which has to succeed
isUserCode(filePath) ==
    \/ ~Includes(filePath, "node_modules")
    \/ ~Includes(filePath, ".vscode")
    \/ ~Includes(filePath, "internal")

enhanceFrameScope(frame) ==
    IF Includes(frame.file, "node_modules") THEN "external_library"
    ELSE IF Includes(frame.file, "internal") \/ Includes(frame.file, "builtin")
         THEN "runtime_internal"
    ELSE IF isUserCode(frame.file) THEN "user_code"
    ELSE IF frame.scope = "" THEN "unknown" ELSE frame.scope

processStackTrace(stackTrace) ==
    LET sortedFrames ==
            StableSort(stackTrace,
                       [i \in 1..Len(stackTrace) |->
                           IF isUserCode(stackTrace[i].file) THEN 0 ELSE 1])
    IN  [i \in 1..Len(sortedFrames) |->
            [sortedFrames[i] EXCEPT !.scope = enhanceFrameScope(sortedFrames[i])]]

determineValueType(value) ==
    CASE value.kind = "none" -> "undefined"
      [] value.kind = "array" -> "array"
      [] value.kind = "object" -> "object"
      [] value.kind = "string" -> "string"

enhanceVariable(variable) ==
    [name |-> variable.name, value |-> variable.value, type |-> variable.type,
     scope |-> variable.scope, isRedacted |-> variable.isRedacted,
     valueType |-> determineValueType(variable.value),
     isComplex |-> isComplexValue(variable.value),
     size |-> JsonLength(variable.value)]

\* the names of the variables of the raw contexts, as localeCompare
\* orders them
NameOrder == << "alpha", "count", "email", "userName", "zeta" >>
localeCompareRank(name) == CHOOSE i \in 1..Len(NameOrder) : NameOrder[i] = name

\* one scope group of processVariables: filtered, sorted by name, enhanced
ScopeGroup(variables, scope) ==
    LET vars_ == SelectSeq(variables, LAMBDA v : v.scope = scope)
        sorted == StableSort(vars_,
                             [i \in 1..Len(vars_) |-> localeCompareRank(vars_[i].name)])
    IN  [i \in 1..Len(sorted) |-> enhanceVariable(sorted[i])]

processVariables(variables) ==
    ScopeGroup(variables, "local") \o ScopeGroup(variables, "closure")
        \o ScopeGroup(variables, "global")

\* String(n) of a natural number
RECURSIVE NatToString(_)
NatToString(n) ==
    IF n < 10 THEN CharAt("0123456789", n + 1)
    ELSE NatToString(n \div 10) \o CharAt("0123456789", (n % 10) + 1)

processConsoleOutput(consoleOutput) ==
    LET sorted == StableSort(consoleOutput,
                             [i \in 1..Len(consoleOutput) |-> consoleOutput[i].timestamp])
    IN  [i \in 1..Len(sorted) |->
            [level |-> sorted[i].level, message |-> sorted[i].message,
             timestamp |-> sorted[i].timestamp,
             source |-> IF sorted[i].source = "" THEN "console" ELSE sorted[i].source,
             correlationId |-> "console_" \o NatToString(i - 1) \o "_"
                                  \o NatToString(sorted[i].timestamp)]]

\* the position behind ^https?:\/\/ in url, 0 when it does not match
AfterHttp(url) ==
    IF StartsWith(url, "http://") THEN 8
    ELSE IF StartsWith(url, "https://") THEN 9
    ELSE 0

\* DataProcessor.isExternalRequest: four patterns, some of which matches
DataProcessor_isExternalRequest(url) ==
    LET p == AfterHttp(url)
    IN  /\ p > 0
        /\ \/ ~(\/ MatchesAt(url, p, "localhost")
                \/ MatchesAt(url, p, "127.0.0.1")
                \/ MatchesAt(url, p, "0.0.0.0"))
           \/ \E i \in p..Len(url) :
                 \/ MatchesAt(url, i, ".com")
                 \/ MatchesAt(url, i, ".org")
                 \/ MatchesAt(url, i, ".net")

categorizeNetworkRequest(activity) ==
    LET url == ToLower(activity.url)
    IN  IF Includes(url, "/api/") THEN "api"
        ELSE IF Includes(url, "/graphql") THEN "graphql"
        ELSE IF Includes(url, "/auth") THEN "authentication"
        ELSE IF Includes(url, "/upload") \/ Includes(url, "/download")
             THEN "file_transfer"
        ELSE IF activity.method = "GET" /\ Includes(url, "/static/")
             THEN "static_resource"
        ELSE "general"

\* DataProcessor.extractDomain has the code of MiddlewareRegistry's
processNetworkActivity(networkActivity) ==
    LET sorted == StableSort(networkActivity,
                             [i \in 1..Len(networkActivity) |->
                                 networkActivity[i].timestamp])
    IN  [i \in 1..Len(sorted) |->
            [method |-> sorted[i].method, url |-> sorted[i].url,
             responseStatus |-> sorted[i].responseStatus,
             timestamp |-> sorted[i].timestamp,
             domain |-> extractDomain(sorted[i].url),
             isExternal |-> DataProcessor_isExternalRequest(sorted[i].url),
             category |-> categorizeNetworkRequest(sorted[i])]]

ArrayFields == {"stackTrace", "variables", "consoleOutput", "networkActivity"}
ContextFields ==
    {"sessionId", "timestamp", "eventType", "sourceLocation"} \cup ArrayFields

\* the operands of the object literal of processContext: field || default
Operand(rawContext, field) ==
    CASE field = "sessionId" -> Or(Get(rawContext, field), "unknown")
      [] field = "timestamp" -> Or(Get(rawContext, field), now)
      [] field = "eventType" -> Or(Get(rawContext, field), "breakpoint")
      [] field = "sourceLocation" ->
             Or(Get(rawContext, field), [file |-> "unknown", line |-> 0, column |-> 0])
      [] field \in ArrayFields -> Or(Get(rawContext, field), <<>>)
      [] field = "exception" -> Get(rawContext, field)

\* a process method is handed undefined: spreading it, or calling filter
\* or sort on it, throws a TypeError
Throws(rawContext) == \E field \in ArrayFields : Operand(rawContext, field).undefined

ProcessedField(rawContext, field) ==
    LET value == Operand(rawContext, field).value
    IN  CASE field = "stackTrace" -> processStackTrace(value)
          [] field = "variables" -> processVariables(value)
          [] field = "consoleOutput" -> processConsoleOutput(value)
          [] field = "networkActivity" -> processNetworkActivity(value)
          [] OTHER -> value

\* const processedContext of processContext, when nothing throws: a
\* property whose value is undefined is left out
processedContext(rawContext) ==
    [field \in {f \in ContextFields \cup {"exception"} :
                   ~Operand(rawContext, f).undefined} |->
        ProcessedField(rawContext, field)]

StackFrame(name, file, scope) ==
    [name |-> name, file |-> file, line |-> 10, column |-> 5, scope |-> scope]
VariableSnapshot(name, value, scope) ==
    [name |-> name, value |-> value, type |-> "string", scope |-> scope,
     isRedacted |-> FALSE]

\* a raw context that has every field
CompleteRaw ==
    [sessionId |-> "s1",
     timestamp |-> 1,
     eventType |-> "exception",
     sourceLocation |-> [file |-> "/test.ts", line |-> 10, column |-> 5],
     stackTrace |-> << StackFrame("require", "node_modules/.vscode/internal.js", ""),
                       StackFrame("testFunction", "/test.ts", "user") >>,
     variables |-> << VariableSnapshot("userName", Str("bob"), "global"),
                      VariableSnapshot("count", Str("42"), "local"),
                      VariableSnapshot("alpha", Obj(<< Prop("a", Str("1")) >>), "local") >>,
     consoleOutput |-> << [level |-> "info", message |-> "second", timestamp |-> 12,
                           source |-> ""],
                          [level |-> "info", message |-> "Test message",
                           timestamp |-> 3, source |-> "stdout"] >>,
     networkActivity |-> << [method |-> "GET", url |-> "https://a.com/static/x",
                             responseStatus |-> 200, timestamp |-> 2],
                            [method |-> "POST", url |-> "http://localhost/api/u",
                             responseStatus |-> 201, timestamp |-> 1] >>,
     exception |-> [name |-> "TypeError", message |-> "x is undefined"]]

Restrict(rawContext, fields) == [f \in fields |-> rawContext[f]]

\* the fields whose defaults are not the session or the clock
DefaultedFields == {"eventType", "sourceLocation"} \cup ArrayFields

\* raw contexts: every subset of the defaulted fields absent; the empty
\* object; the complete one; one with a session id alone; one without a
\* session id; one with an empty session id and a timestamp of 0; one
\* whose stack has a frame of a library above a frame of the program
RawContexts ==
    { Restrict(CompleteRaw, present \cup {"sessionId", "timestamp"}) :
          present \in SUBSET DefaultedFields }
    \cup { Restrict(CompleteRaw, {}),
           CompleteRaw,
           Restrict(CompleteRaw, {"sessionId"}),
           Restrict(CompleteRaw, {"timestamp"} \cup DefaultedFields),
           [Restrict(CompleteRaw, {"sessionId", "timestamp", "variables"})
               EXCEPT !.sessionId = "", !.timestamp = 0],
           [Restrict(CompleteRaw, {"sessionId", "timestamp", "stackTrace"})
               EXCEPT !.stackTrace =
                   << StackFrame("emit", "node_modules/e.js", ""),
                      StackFrame("main", "/app.ts", "") >>] }

\* the contexts held by the history map
StoredContexts ==
    SumOver([k \in DOMAIN dpHistory |-> Len(dpHistory[k])], DOMAIN dpHistory)

\* DataProcessor.processContext(rawContext)
processRawContext(rawContext) ==
    IF Throws(rawContext)
    THEN /\ lastOp' = [op |-> "processContext", policy |-> NoPolicy, at |-> now,
                       flip |-> lastOp.flip, raw |-> rawContext, threw |-> TRUE,
                       result |-> <<>>]
         /\ UNCHANGED <<now, activeSessions, stoppedSessions, sessionHistory,
                        dpOrder, dpHistory, tasks, arrived, ev, conBuf,
                        conAppended, netBuf, netAppended, filt, config, middlewares, eventListeners, aiModeEnabled>>
    ELSE \E context \in {processedContext(rawContext)} :
         LET key == context.sessionId
             history == IF InSeq(dpOrder, key) THEN dpHistory[key] ELSE <<>>
         IN  /\ dpHistory' = (key :> AddToHistory(history, context)) @@ dpHistory
             /\ dpOrder' = MapSetOrder(dpOrder, key)
             /\ lastOp' = [op |-> "processContext", policy |-> NoPolicy,
                           at |-> now, flip |-> lastOp.flip, raw |-> rawContext,
                           threw |-> FALSE, result |-> context]
             /\ UNCHANGED <<now, activeSessions, stoppedSessions, sessionHistory,
                            tasks, arrived, ev, conBuf, conAppended, netBuf,
                            netAppended, filt, config, middlewares, eventListeners, aiModeEnabled>>

NextIngest ==
    /\ StoredContexts < MaxIngests
    /\ \E rawContext \in RawContexts : processRawContext(rawContext)

SpecIngest == Init /\ [][NextIngest]_vars

\* the safe defaults of the fields of a context
SafeDefault(field) ==
    CASE field = "eventType" -> "breakpoint"
      [] field = "sourceLocation" -> [file |-> "unknown", line |-> 0, column |-> 0]
      [] field \in ArrayFields -> <<>>

\* C22: processContext never fails on missing data.  For a raw context
\* with any subset of its fields absent it returns a complete context, in
\* which each absent field has its safe default (eventType 'breakpoint',
\* location 'unknown' / 0 / 0, empty stackTrace, variables, consoleOutput
\* and networkActivity), and that context is the last entry of the history
\* of its session.
C22_IngestDefaults ==
    lastOp.op = "processContext" =>
        /\ ~lastOp.threw
        /\ ContextFields \subseteq DOMAIN lastOp.result
        /\ \A field \in DefaultedFields \ DOMAIN lastOp.raw :
              lastOp.result[field] = SafeDefault(field)
        /\ InSeq(dpOrder, lastOp.result.sessionId)
        /\ dpHistory[lastOp.result.sessionId] # <<>>
        /\ dpHistory[lastOp.result.sessionId]
              [Len(dpHistory[lastOp.result.sessionId])] = lastOp.result

\* the empty raw context has been ingested behind a context of the same
\* history, and came out with every default
C22_Witness ==
    /\ lastOp.op = "processContext"
    /\ DOMAIN lastOp.raw = {}
    /\ ~lastOp.threw
    /\ lastOp.result.sessionId = "unknown"
    /\ lastOp.result.timestamp = now
    /\ \A field \in DefaultedFields : lastOp.result[field] = SafeDefault(field)
    /\ Len(dpHistory["unknown"]) = 2
    /\ dpHistory["unknown"][2] = lastOp.result

\* C32 (as stated): in every processed stack trace no frame tagged
\* external_library or runtime_internal comes before a frame tagged
\* user_code.
C32_UserFramesFirst ==
    (lastOp.op = "processContext" /\ ~lastOp.threw) =>
        LET stackTrace == lastOp.result.stackTrace
        IN  \A i, j \in 1..Len(stackTrace) :
                (i < j /\ stackTrace[j].scope = "user_code")
                    => stackTrace[i].scope \notin
                           {"external_library", "runtime_internal"}

-----------------------------------------------------------------------------
(* Privacy settings read from the configuration: SpecSettings.  A          *)
(* configuration is a record of the options that are set; a context is     *)
(* filtered under the settings getPrivacySettings reads from it.           *)

PrivacyOptions ==
    {"redactSensitiveVariables", "redactFileContents", "redactNetworkData",
     "maxVariableValueLength", "maxStackFrames", "maxConsoleEntries",
     "sensitivityLevel"}

\* config.get(section, defaultValue)
ConfigGet(configuration, option, defaultValue) ==
    IF option \in DOMAIN configuration THEN configuration[option] ELSE defaultValue

\* DataProcessor.getPrivacySettings
getPrivacySettings(configuration) ==
    [redactSensitiveVariables |->
         ConfigGet(configuration, "redactSensitiveVariables", TRUE),
     redactFileContents |-> ConfigGet(configuration, "redactFileContents", FALSE),
     redactNetworkData |-> ConfigGet(configuration, "redactNetworkData", TRUE),
     maxVariableValueLength |->
         ConfigGet(configuration, "maxVariableValueLength", 1000),
     maxStackFrames |-> ConfigGet(configuration, "maxStackFrames", 20),
     maxConsoleEntries |-> ConfigGet(configuration, "maxConsoleEntries", 50),
     sensitivityLevel |-> ConfigGet(configuration, "sensitivityLevel", "medium")]

\* configurations with every option set, to a value that is not its default
FullConfigurations ==
    { [redactSensitiveVariables |-> FALSE, redactFileContents |-> TRUE,
       redactNetworkData |-> FALSE, maxVariableValueLength |-> 5,
       maxStackFrames |-> 2, maxConsoleEntries |-> 2,
       sensitivityLevel |-> level] : level \in {"low", "high", "extreme"} }

\* any subset of the options set
Configurations ==
    { [option \in present |-> full[option]] :
          present \in SUBSET PrivacyOptions, full \in FullConfigurations }

SettingsContexts ==
    { NewContext(<< Variable("userName", Str("bob")),
                    Variable("note", Str("my Token is abc")),
                    Variable("text", Str("abcdefghijklmnopqrst")) >>, rest) :
          rest \in RestChoices }

\* applyPrivacyFilters(context) under a configuration
applyPrivacyFiltersUnder(configuration, context) ==
    /\ filt.passes = 0
    /\ filt' = [settings |-> getPrivacySettings(configuration),
                original |-> context,
                input |-> context,
                output |-> applyPrivacyFilters(context, getPrivacySettings(configuration)),
                passes |-> 1,
                configuration |-> configuration]
    /\ UNCHANGED Others

NextSettings ==
    \E configuration \in Configurations, context \in SettingsContexts :
        applyPrivacyFiltersUnder(configuration, context)

SpecSettings == Init /\ [][NextSettings]_vars

\* the defaults the specification documents
DocumentedDefaults ==
    [redactSensitiveVariables |-> TRUE, redactFileContents |-> TRUE,
     redactNetworkData |-> TRUE, maxVariableValueLength |-> 1000,
     maxStackFrames |-> 20, maxConsoleEntries |-> 50,
     sensitivityLevel |-> "medium"]

\* C23 (as stated): when a privacy option is missing from the
\* configuration the pipeline uses the documented defaults: every redact
\* toggle true, maxVariableValueLength 1000, maxStackFrames 20,
\* maxConsoleEntries 50, sensitivityLevel 'medium'; and an unrecognized
\* sensitivityLevel behaves as 'medium'.
C23_DocumentedDefaults ==
    filt.passes >= 1 =>
        /\ \A option \in PrivacyOptions \ DOMAIN filt.configuration :
              filt.settings[option] = DocumentedDefaults[option]
        /\ filt.settings.sensitivityLevel \notin {"low", "medium", "high"} =>
              filt.output = applyPrivacyFilters(filt.original,
                                AtLevel(filt.settings, "medium"))

-----------------------------------------------------------------------------
(* Middleware registration: SpecRegistry.  Middlewares whose instrument    *)
(* or uninstrument may throw are registered and unregistered under two     *)
(* names; lastOp keeps the arguments of the last call, the map before it,  *)
(* the middlewares whose uninstrument it called and whether it threw.      *)

\* an IMiddleware object: what its instrument() and uninstrument() do
Middleware(id, instrumentThrows, uninstrumentThrows) ==
    [id |-> id, instrumentThrows |-> instrumentThrows,
     uninstrumentThrows |-> uninstrumentThrows]

MiddlewarePool ==
    { Middleware(id, i, u) : id \in {"m1", "m2"}, i \in BOOLEAN, u \in BOOLEAN }

MiddlewareNames == {"test", "faulty"}

\* Map.has, Map.get, Map.set and Map.delete on a sequence of entries
MapIndex(map, name) ==
    IF \E i \in 1..Len(map) : map[i].name = name
    THEN CHOOSE i \in 1..Len(map) : map[i].name = name
    ELSE 0
MapHas(map, name) == MapIndex(map, name) > 0
MapGet(map, name) == map[MapIndex(map, name)].middleware
MapSet(map, name, middleware) ==
    IF MapHas(map, name)
    THEN [map EXCEPT ![MapIndex(map, name)].middleware = middleware]
    ELSE Append(map, [name |-> name, middleware |-> middleware])
MapDelete(map, name) == SelectSeq(map, LAMBDA e : e.name # name)

\* MiddlewareRegistry.getRegisteredMiddleware
getRegisteredMiddleware == [i \in 1..Len(middlewares) |-> middlewares[i].name]

\* the body of unregisterMiddleware on a map: the map it leaves and the
\* middlewares whose uninstrument() it called
Unregistered(map, name) ==
    IF MapHas(map, name)
    THEN LET middleware == MapGet(map, name)
         IN  [map |-> IF middleware.uninstrumentThrows THEN map
                      ELSE MapDelete(map, name),
              calls |-> << middleware >>]
    ELSE [map |-> map, calls |-> <<>>]

\* the body of registerMiddleware with instrument() called outside a try
\* block: an exception of instrument() leaves the function
Registered_NoCatch(map, name, middleware) ==
    LET cleared == Unregistered(map, name)
    IN  [map |-> MapSet(cleared.map, name, middleware),
         calls |-> cleared.calls,
         threw |-> middleware.instrumentThrows]

\* the body of registerMiddleware on a map
Registered(map, name, middleware) ==
    LET cleared == IF MapHas(map, name) THEN Unregistered(map, name)
                   ELSE [map |-> map, calls |-> <<>>]
        set == MapSet(cleared.map, name, middleware)
    IN  [map |-> IF middleware.instrumentThrows THEN MapDelete(set, name) ELSE set,
         calls |-> cleared.calls,
         threw |-> FALSE]

RegistryOthers ==
    <<now, activeSessions, stoppedSessions, sessionHistory, dpOrder, dpHistory,
      tasks, arrived, ev, conBuf, conAppended, netBuf, netAppended, filt,
      config, eventListeners, aiModeEnabled>>

\* MiddlewareRegistry.registerMiddleware
registerMiddleware(name, middleware) ==
    LET done == Registered(middlewares, name, middleware)
    IN  /\ middlewares' = done.map
        /\ lastOp' = [op |-> "registerMiddleware", policy |-> NoPolicy,
                      at |-> now, flip |-> lastOp.flip, name |-> name,
                      middleware |-> middleware, before |-> middlewares,
                      uninstrumented |-> done.calls, threw |-> done.threw]
        /\ UNCHANGED RegistryOthers

\* MiddlewareRegistry.unregisterMiddleware
unregisterMiddleware(name) ==
    LET done == Unregistered(middlewares, name)
    IN  /\ middlewares' = done.map
        /\ lastOp' = [op |-> "unregisterMiddleware", policy |-> NoPolicy,
                      at |-> now, flip |-> lastOp.flip, name |-> name,
                      middleware |-> Middleware("none", FALSE, FALSE),
                      before |-> middlewares,
                      uninstrumented |-> done.calls, threw |-> FALSE]
        /\ UNCHANGED RegistryOthers

NextRegistry ==
    \/ \E name \in MiddlewareNames, middleware \in MiddlewarePool :
          registerMiddleware(name, middleware)
    \/ \E name \in MiddlewareNames : unregisterMiddleware(name)

SpecRegistry == Init /\ [][NextRegistry]_vars

Listed(name) == InSeq(getRegisteredMiddleware, name)

\* C24: registerMiddleware(name, m) never throws, and afterwards name is
\* listed by getRegisteredMiddleware() exactly when m.instrument()
\* completed without throwing, also when name was already registered: then
\* uninstrument() of the previous middleware has been called and the entry
\* of name, when there is one, is m.
C24_RegisteredIffInstrumented ==
    lastOp.op = "registerMiddleware" =>
        /\ ~lastOp.threw
        /\ Listed(lastOp.name) <=> ~lastOp.middleware.instrumentThrows
        /\ Listed(lastOp.name) => MapGet(middlewares, lastOp.name) = lastOp.middleware
        /\ MapHas(lastOp.before, lastOp.name) =>
              lastOp.uninstrumented = << MapGet(lastOp.before, lastOp.name) >>

\* a name held by one middleware has been registered again with another
\* one, whose instrument() completed: the name is listed with the new
\* middleware, and uninstrument() of the previous one has been called
C24_Witness ==
    /\ lastOp.op = "registerMiddleware"
    /\ MapHas(lastOp.before, lastOp.name)
    /\ MapGet(lastOp.before, lastOp.name).id # lastOp.middleware.id
    /\ ~lastOp.middleware.instrumentThrows
    /\ Listed(lastOp.name)
    /\ MapGet(middlewares, lastOp.name) = lastOp.middleware
    /\ lastOp.uninstrumented = << MapGet(lastOp.before, lastOp.name) >>
    /\ Len(middlewares) = 2

\* C25 (as stated): after unregisterMiddleware(name) for a registered
\* name, name is no longer listed by getRegisteredMiddleware(), the
\* uninstrument() of its middleware has been called, and all other
\* registrations are unchanged.
C25_UnregisterRemoves ==
    (lastOp.op = "unregisterMiddleware" /\ MapHas(lastOp.before, lastOp.name)) =>
        /\ ~Listed(lastOp.name)
        /\ lastOp.uninstrumented = << MapGet(lastOp.before, lastOp.name) >>
        /\ MapDelete(middlewares, lastOp.name) = MapDelete(lastOp.before, lastOp.name)

-----------------------------------------------------------------------------
(* Listener notification: SpecListeners.  Listeners that return, throw or  *)
(* call removeEventListener are added and removed, and collectNetworkData  *)
(* notifies them; lastOp keeps the listeners registered when the call      *)
(* began, the listeners it called in order, and the listeners removed      *)
(* with removeEventListener and not added again since.                     *)

\* a listener function: what it does when called, and the listener it
\* hands to removeEventListener when it removes one
Listener(id, does, target) == [id |-> id, does |-> does, target |-> target]

ListenerPool ==
    { Listener("quiet", "returns", "none"),
      Listener("faulty", "throws", "none"),
      Listener("once", "removes", "once"),
      Listener("guard", "removes", "quiet") }

\* eventListeners.indexOf(listener), from 1; 0 when it is not there
IndexOf(list, listener) ==
    IF InSeq(list, listener)
    THEN CHOOSE i \in 1..Len(list) :
            list[i] = listener /\ \A j \in 1..(i - 1) : list[j] # listener
    ELSE 0

\* the body of removeEventListener on a list: splice(index, 1)
Spliced(list, listener) ==
    LET index == IndexOf(list, listener)
    IN  IF index > 0
        THEN SubSeq(list, 1, index - 1) \o SubSeq(list, index + 1, Len(list))
        ELSE list

\* what calling a listener does to the list
Called(list, listener) ==
    IF listener.does = "removes"
    THEN Spliced(list, CHOOSE l \in ListenerPool : l.id = listener.target)
    ELSE list

RECURSIVE NotifyLoop(_, _, _)
\* for (const listener of this.eventListeners): the array iterator reads
\* the length and the element at its index on every step; an exception of
\* a listener is caught inside the loop
NotifyLoop(list, i, notified) ==
    IF i > Len(list) THEN [list |-> list, notified |-> notified]
    ELSE NotifyLoop(Called(list, list[i]), i + 1, Append(notified, list[i]))

\* MiddlewareRegistry.notifyListeners
notifyListeners(list) == NotifyLoop(list, 1, <<>>)

ListenerOthers ==
    <<now, activeSessions, stoppedSessions, sessionHistory, dpOrder, dpHistory,
      tasks, arrived, ev, conBuf, conAppended, filt, config, middlewares,
      aiModeEnabled>>

\* the listeners removed with removeEventListener and not added since
Removed == IF "removed" \in DOMAIN lastOp THEN lastOp.removed ELSE {}

\* MiddlewareRegistry.addEventListener
addEventListener(listener) ==
    /\ Len(eventListeners) < MaxListeners
    /\ eventListeners' = Append(eventListeners, listener)
    /\ lastOp' = [op |-> "addEventListener", policy |-> NoPolicy, at |-> now,
                  flip |-> lastOp.flip, before |-> eventListeners,
                  notified |-> <<>>, removed |-> Removed \ {listener}]
    /\ UNCHANGED <<netBuf, netAppended>>
    /\ UNCHANGED ListenerOthers

\* MiddlewareRegistry.removeEventListener
removeEventListener(listener) ==
    /\ eventListeners' = Spliced(eventListeners, listener)
    /\ lastOp' = [op |-> "removeEventListener", policy |-> NoPolicy, at |-> now,
                  flip |-> lastOp.flip, before |-> eventListeners,
                  notified |-> <<>>, removed |-> Removed \cup {listener}]
    /\ UNCHANGED <<netBuf, netAppended>>
    /\ UNCHANGED ListenerOthers

\* MiddlewareRegistry.collectNetworkData with its notification
collectAndNotify(request, response) ==
    LET networkData == NetworkDataOf(request, response, config, netAppended + 1, now)
        done == notifyListeners(eventListeners)
    IN  /\ netBuf' = addToBuffer(netBuf, networkData)
        /\ netAppended' = netAppended + 1
        /\ eventListeners' = done.list
        /\ lastOp' = [op |-> "collectNetworkData", policy |-> NoPolicy,
                      at |-> now, flip |-> lastOp.flip,
                      before |-> eventListeners, notified |-> done.notified,
                      removed |-> Removed]
        /\ UNCHANGED ListenerOthers

NextListeners ==
    \/ \E listener \in ListenerPool : addEventListener(listener)
    \/ \E listener \in ListenerPool : removeEventListener(listener)
    \/ /\ netAppended < MaxRequests
       /\ collectAndNotify(Request("GET", "/test", <<>>, None), Response(200, None))

SpecListeners == Init /\ [][NextListeners]_vars

\* the number of times x occurs in s
Count(s, x) == Cardinality({i \in 1..Len(s) : s[i] = x})

\* C26 (as stated): on every collectNetworkData call each listener
\* registered at that moment is notified exactly once (once for each time
\* it is registered), also when another listener throws or removes a
\* listener during the notification; and a listener removed with
\* removeEventListener is not notified by later calls.
C26_EachListenerNotifiedOnce ==
    lastOp.op = "collectNetworkData" =>
        /\ \A listener \in ListenerPool :
              Count(lastOp.notified, listener) = Count(lastOp.before, listener)
        /\ \A listener \in lastOp.removed : ~InSeq(lastOp.notified, listener)

-----------------------------------------------------------------------------
(* Categories: SpecCategory.  Requests that match none, one or several of  *)
(* the rules of categorizeRequest are handed to collectNetworkData.        *)

CategoryRequests ==
    { Request("GET", "https://example.com/graphql", <<>>, None),
      Request("GET", "https://example.com/auth/login", <<>>, None),
      Request("POST", "https://example.com/upload/file", <<>>, None),
      Request("GET", "https://example.com/static/app.js", <<>>, None),
      Request("GET", "https://example.com/ws/chat", <<>>, None),
      Request("GET", "https://example.com/other", <<>>, None),
      Request("GET", "/api/auth/login", <<>>, None),
      Request("POST", "/graphql/upload", <<>>, None),
      Request("POST", "/login/upload", <<>>, None),
      Request("POST", "/upload/app.js", <<>>, None),
      Request("GET", "/upload/app.js", <<>>, None),
      Request("GET", "/ws/app.js", <<>>, None),
      Request("POST", "/ws/app.js", <<>>, None),
      Request("GET", "/websocket/api/", <<>>, None),
      Request("get", "/WS/Style.CSS", <<>>, None),
      Request("post", "/Upload/x", <<>>, None),
      Request("PUT", "/upload/a.js", <<>>, None) }

NextCategory ==
    \/ /\ netAppended < MaxRequests
       /\ \E request \in CategoryRequests :
             collectNetworkPair(request, Response(200, None))
    \/ clearNetworkBuffer

SpecCategory == Init /\ [][NextCategory]_vars

\* the categories of the rules, in the order in which they are tried
RuleCategories ==
    << "api", "graphql", "authentication", "file_upload", "static_resource",
       "websocket" >>

\* rule k matches the request
RuleMatches(k, request) ==
    LET url == ToLower(request.url)
        method == ToUpper(request.method)
    IN  CASE k = 1 -> Includes(url, "/api/")
          [] k = 2 -> Includes(url, "/graphql")
          [] k = 3 -> Includes(url, "/auth") \/ Includes(url, "/login")
          [] k = 4 -> method = "POST" /\ Includes(url, "/upload")
          [] k = 5 -> method = "GET" /\ \E ext \in {".js", ".css", ".png"} :
                                          Includes(url, ext)
          [] k = 6 -> Includes(url, "/ws/") \/ Includes(url, "/websocket")

MatchingRules(request) == {k \in 1..Len(RuleCategories) : RuleMatches(k, request)}

-----------------------------------------------------------------------------
(* The pipeline of one event on concrete contexts: SpecPipeline.           *)
(* DebugSessionManager.processAndAnalyzeContext pushes the context on the  *)
(* history of its session and hands it to processContext,                  *)
(* applyPrivacyFilters and structureForAI.  Arrays are shared where the    *)
(* code passes them on without copying, and Array.prototype.sort sorts in  *)
(* place: the stored contexts are written as they are once the handler     *)
(* has returned.                                                           *)

\* consoleOutput.sort / networkActivity.sort of processContext: the array
\* after the call
sortByTimestamp(entries) ==
    StableSort(entries, [i \in 1..Len(entries) |-> entries[i].timestamp])

\* variables.sort(...) of prioritizeVariables: the array after the call
sortVariables(variables) ==
    StableSort(variables,
               [i \in 1..Len(variables) |->
                   (IF variables[i].scope = "local" THEN 0 ELSE 1)
                       * (Len(NameOrder) + 1)
                     + localeCompareRank(variables[i].name)])

prioritizeVariables(variables) == JsPrefix(sortVariables(variables), 20)

\* stackTrace.sort(...) of prioritizeStackFrames: the array after the call
sortStackFrames(stackTrace) ==
    StableSort(stackTrace,
               [i \in 1..Len(stackTrace) |->
                   IF isUserCode(stackTrace[i].file) THEN 0 ELSE 1])

prioritizeStackFrames(stackTrace) == JsPrefix(sortStackFrames(stackTrace), 10)

\* networkActivity.sort(...) of prioritizeNetworkActivity: the array after
\* the call (failing responses first, then the later timestamp first)
sortNetworkActivity(networkActivity) ==
    LET latest == IF networkActivity = <<>> THEN 0
                  ELSE CHOOSE t \in {networkActivity[i].timestamp :
                                         i \in 1..Len(networkActivity)} :
                           \A i \in 1..Len(networkActivity) :
                               networkActivity[i].timestamp <= t
    IN  StableSort(networkActivity,
                   [i \in 1..Len(networkActivity) |->
                       (IF networkActivity[i].responseStatus >= 400 THEN 0 ELSE 1)
                           * (latest + 1)
                         + (latest - networkActivity[i].timestamp)])

prioritizeNetworkActivity(networkActivity) ==
    JsPrefix(sortNetworkActivity(networkActivity), 5)

\* parts.join('. ')
RECURSIVE Join(_, _)
Join(parts, sep) ==
    IF parts = <<>> THEN ""
    ELSE IF Len(parts) = 1 THEN parts[1]
    ELSE parts[1] \o sep \o Join(Tail(parts), sep)

HasException(context) == "exception" \in DOMAIN context

generateContextSummary(context) ==
    Join(<< context.eventType \o " event in " \o context.sourceLocation.file
               \o ":" \o NatToString(context.sourceLocation.line) >>
         \o (IF HasException(context)
             THEN << "Exception: " \o context.exception.name \o " - "
                        \o context.exception.message >>
             ELSE <<>>)
         \o (IF Len(context.variables) > 0
             THEN << NatToString(Len(context.variables)) \o " variables captured" >>
             ELSE <<>>)
         \o (IF Len(context.networkActivity) > 0
             THEN << NatToString(Len(context.networkActivity)) \o " network requests" >>
             ELSE <<>>),
         ". ")

\* the description, as a list of at most one string (none: undefined)
generateErrorDescription(context) ==
    LET errorLogs == SelectSeq(context.consoleOutput, LAMBDA log : log.level = "error")
    IN  IF HasException(context)
        THEN << context.exception.name \o ": " \o context.exception.message >>
        ELSE IF Len(errorLogs) > 0 THEN << errorLogs[1].message >>
        ELSE <<>>

detectLanguage(filePath) ==
    LET dot == LastIndexOfAny(filePath, Len(filePath), {"."})
        extension == ToLower(Sub(filePath, dot + 1, Len(filePath)))
    IN  CASE extension = "ts" -> "typescript"
          [] extension = "js" -> "javascript"
          [] extension = "py" -> "python"
          [] extension = "java" -> "java"
          [] extension = "cs" -> "csharp"
          [] extension = "cpp" -> "cpp"
          [] extension = "c" -> "c"
          [] extension = "go" -> "go"
          [] extension = "rs" -> "rust"
          [] extension = "php" -> "php"
          [] extension = "rb" -> "ruby"
          [] OTHER -> "unknown"

\* the framework, as a list of at most one string (none: undefined)
detectFramework(context) ==
    LET inStack(lit) == \E i \in 1..Len(context.stackTrace) :
                            Includes(ToLower(context.stackTrace[i].file), lit)
        inUrls(lit) == \E i \in 1..Len(context.networkActivity) :
                            Includes(ToLower(context.networkActivity[i].url), lit)
    IN  IF inStack("react") THEN << "React" >>
        ELSE IF inStack("angular") THEN << "Angular" >>
        ELSE IF inStack("vue") THEN << "Vue.js" >>
        ELSE IF inStack("express") THEN << "Express.js" >>
        ELSE IF inStack("next") THEN << "Next.js" >>
        ELSE IF inUrls("graphql") THEN << "GraphQL" >>
        ELSE <<>>

extractRelevantCode(context) ==
    LET frames == JsPrefix(context.stackTrace, 5)
    IN  [i \in 1..Len(frames) |->
            frames[i].name \o " at " \o frames[i].file \o ":"
                \o NatToString(frames[i].line) \o ":" \o NatToString(frames[i].column)]

\* the query, as a list of at most one string (none: undefined)
generateImplicitQuery(context) ==
    IF HasException(context)
    THEN << "How can I fix this " \o context.exception.name \o ": "
               \o context.exception.message \o "?" >>
    ELSE IF context.eventType = "breakpoint"
    THEN << "What might be causing issues at this breakpoint?" >>
    ELSE <<>>

\* DataProcessor.structureForAI: the AIReadyContext returned
structureForAI(context) ==
    [summary |-> generateContextSummary(context),
     errorDescription |-> generateErrorDescription(context),
     codeContext |-> [language |-> detectLanguage(context.sourceLocation.file),
                      framework |-> detectFramework(context),
                      relevantCode |-> extractRelevantCode(context)],
     runtimeState |-> [variables |-> prioritizeVariables(context.variables),
                       stackTrace |-> prioritizeStackFrames(context.stackTrace),
                       networkActivity |->
                           prioritizeNetworkActivity(context.networkActivity)],
     userQuery |-> generateImplicitQuery(context)]

LogEntry(level, message, timestamp) ==
    [level |-> level, message |-> message, timestamp |-> timestamp,
     source |-> "stdout"]

\* a context as collectDebugContext builds it: the console output is the
\* tail of the console buffer, the network activity is empty
DebugContext(sessionId, eventType, variables, consoleOutput, stackTrace) ==
    LET context ==
            [sessionId |-> sessionId, timestamp |-> 1, eventType |-> eventType,
             sourceLocation |-> [file |-> "/app/main.ts", line |-> 10, column |-> 5],
             stackTrace |-> stackTrace, variables |-> variables,
             consoleOutput |-> consoleOutput, networkActivity |-> <<>>,
             exception |-> [name |-> "TypeError", message |-> "x is undefined"]]
    IN  IF eventType = "exception" THEN context
        ELSE Restrict(context, ContextFields)

\* events: one with three scopes of variables, console entries out of
\* time order and a library frame above a frame of the program; three
\* that differ in the value of `email` alone; an exception; one of
\* another session
PipelineContexts ==
    { DebugContext("s1", "breakpoint",
                   << VariableSnapshot("zeta", Str("1"), "closure"),
                      VariableSnapshot("alpha", Str("2"), "global"),
                      VariableSnapshot("count", Str("42"), "local") >>,
                   << LogEntry("error", "late", 2), LogEntry("log", "early", 1) >>,
                   << StackFrame("emit", "node_modules/e.js", ""),
                      StackFrame("main", "/app.ts", "") >>),
      DebugContext("s1", "exception", <<>>,
                   << LogEntry("log", "early", 1) >>,
                   << StackFrame("main", "/app.ts", "") >>),
      DebugContext("s2", "step", <<>>, <<>>, <<>>) }
    \cup { DebugContext("s1", "breakpoint",
                        << VariableSnapshot("email", Str(value), "local") >>,
                        <<>>, <<>>) : value \in {"a@b.c", "x@y.z", "al@b.c"} }

\* what the user has set of the privacy options: any of the three toggles
\* switched off, or both caps set to 0 or to 1
PipelineConfigurations ==
    { [option \in off |-> FALSE] :
          off \in SUBSET {"redactSensitiveVariables", "redactFileContents",
                          "redactNetworkData"} }
    \cup { [maxStackFrames |-> cap, maxConsoleEntries |-> cap] : cap \in {0, 1} }

\* DebugSessionManager.processAndAnalyzeContext(context, sessionId) for a
\* session in activeSessions (for any other it returns at once), with the
\* privacy options that getPrivacySettings reads; the analysis request,
\* when one is made, has settled
processAndAnalyzeDebugContext(context, configuration) ==
    LET sessionId == context.sessionId
        privacySettings == getPrivacySettings(configuration)
    IN  /\ getSession(sessionId)
        /\ \E processed \in {processedContext(context)} :
           \E filtered \in {applyPrivacyFilters(processed, privacySettings)} :
           LET \* processContext sorts the arrays of its argument in place
               stored == [context EXCEPT
                             !.consoleOutput = sortByTimestamp(@),
                             !.networkActivity = sortByTimestamp(@)]
               \* filterVariables and filterNetworkActivity return their
               \* argument when the toggle is off, and structureForAI
               \* sorts what it is given in place
               processedStored ==
                   [processed EXCEPT
                       !.variables =
                           IF privacySettings.redactSensitiveVariables THEN @
                           ELSE sortVariables(@),
                       !.networkActivity =
                           IF privacySettings.redactNetworkData THEN @
                           ELSE sortNetworkActivity(@)]
           IN  /\ sessionHistory' = [sessionHistory EXCEPT
                      ![sessionId] = PushSessionHistory(@, stored)]
               /\ dpHistory' = [dpHistory EXCEPT
                      ![sessionId] = AddToHistory(@, processedStored)]
               /\ dpOrder' = MapSetOrder(dpOrder, sessionId)
               /\ filt' = [settings |-> privacySettings, original |-> processed,
                           input |-> processed, output |-> filtered, passes |-> 1]
               /\ lastOp' = [op |-> "processAndAnalyzeContext", policy |-> NoPolicy,
                             at |-> now, flip |-> lastOp.flip,
                             context |-> context, processed |-> processed,
                             requested |->
                                 shouldAnalyzeContext(
                                     [eventType |-> context.eventType,
                                      variables |-> context.variables,
                                      exception |-> HasException(context)],
                                     context.eventType = "exception"),
                             aiReady |-> structureForAI(filtered)]
               /\ aiModeEnabled' = TRUE
        /\ UNCHANGED <<now, activeSessions, stoppedSessions, tasks, arrived, ev,
                       conBuf, conAppended, netBuf, netAppended, config,
                       middlewares, eventListeners>>

\* the contexts pushed on the histories of the session manager
Pushed ==
    SumOver([s \in Sessions |-> Len(sessionHistory[s])], Sessions)

NextPipeline ==
    \/ \E s \in Sessions : StartSession(s)
    \/ /\ Pushed < MaxPipelineEvents
       /\ \E context \in PipelineContexts,
             configuration \in PipelineConfigurations :
               processAndAnalyzeDebugContext(context, configuration)

SpecPipeline == Init /\ [][NextPipeline]_vars

\* the last step ran the pipeline on an event
Analyzed == lastOp.op = "processAndAnalyzeContext"

Last(s) == s[Len(s)]

\* C33 (as stated): a context is immutable once appended to session
\* history.  When the handler of an event has returned, the context at the
\* end of the session's history is the context as it was pushed, and the
\* processed context at the end of the data processor's history is the
\* one processContext added, for every setting of the privacy toggles; the
\* entries stored before are the ones stored before.
C33_StoredImmutable ==
    [][(lastOp'.op = "processAndAnalyzeContext" /\ Pushed' > Pushed) =>
          LET sessionId == lastOp'.context.sessionId
          IN  /\ Last(sessionHistory'[sessionId]) = lastOp'.context
              /\ Last(dpHistory'[sessionId]) = lastOp'.processed
              /\ \A s \in Sessions :
                    /\ SubSeq(sessionHistory'[s], 1, Len(sessionHistory[s]))
                          = sessionHistory[s]
                    /\ SubSeq(dpHistory'[s], 1, Len(dpHistory[s]))
                          = dpHistory[s]]_vars

\* C35 (as stated): the redacted, ranked projection is bounded for every
\* configured cap value, 0 included.  After applyPrivacyFilters there are
\* at most maxConsoleEntries console entries and at most maxStackFrames
\* stack frames; after structureForAI there are at most 20 variables, the
\* local ones first, at most 10 stack frames and at most 5 network
\* records, the failing ones first.
C35_ProjectionBounded ==
    Analyzed =>
        LET runtimeState == lastOp.aiReady.runtimeState
        IN  /\ Len(filt.output.consoleOutput) <= filt.settings.maxConsoleEntries
            /\ Len(filt.output.stackTrace) <= filt.settings.maxStackFrames
            /\ Len(runtimeState.variables) <= 20
            /\ Len(runtimeState.stackTrace) <= 10
            /\ Len(runtimeState.networkActivity) <= 5
            /\ \A i, j \in 1..Len(runtimeState.variables) :
                  (i < j /\ runtimeState.variables[j].scope = "local")
                      => runtimeState.variables[i].scope = "local"
            /\ \A i, j \in 1..Len(runtimeState.networkActivity) :
                  (i < j /\ runtimeState.networkActivity[j].responseStatus >= 400)
                      => runtimeState.networkActivity[i].responseStatus >= 400

\* the name matches a pattern of the active sensitivity level
SensitiveName(name, settings) ==
    SomeTest(getSensitivePatterns(settings.sensitivityLevel), name)

\* two events that are identical except for the values of variables whose
\* names match an active sensitive pattern
SameButSensitiveValues(a, b, settings) ==
    /\ DOMAIN a = DOMAIN b
    /\ \A field \in DOMAIN a \ {"variables"} : a[field] = b[field]
    /\ Len(a.variables) = Len(b.variables)
    /\ \A i \in 1..Len(a.variables) :
          \/ a.variables[i] = b.variables[i]
          \/ /\ SensitiveName(a.variables[i].name, settings)
             /\ [a.variables[i] EXCEPT !.value = b.variables[i].value]
                   = b.variables[i]

\* the projection handed to the analysis client for an event
Projection(context, settings) ==
    structureForAI(applyPrivacyFilters(processedContext(context), settings))

\* C38 (as stated): with variable redaction enabled the projection does
\* not depend on the values of sensitive variables.  An event that is
\* identical to an earlier event of the session except for the value of a
\* variable whose name matches an active sensitive pattern has the same
\* projection as that event, every metadata field of its variables
\* included.
C38_ProjectionHidesSensitiveValues ==
    (Analyzed /\ filt.settings.redactSensitiveVariables) =>
        LET history == sessionHistory[lastOp.context.sessionId]
        IN  \A i \in 1..Len(history) :
                SameButSensitiveValues(history[i], lastOp.context, filt.settings)
                    => Projection(history[i], filt.settings) = lastOp.aiReady

-----------------------------------------------------------------------------
(* Callers of the history getters: SpecCallers.  A caller takes the array  *)
(* that getSessionHistory or getContextHistory returns and changes it      *)
(* with push, splice or sort.                                              *)

Mutations == {"push", "splice", "sort"}

\* the array after array.push(array[0]), array.splice(0, 1) or
\* array.sort((a, b) => a.eventType.localeCompare(b.eventType))
Mutated(array, mutation) ==
    CASE mutation = "push" -> IF array = <<>> THEN array ELSE Append(array, array[1])
      [] mutation = "splice" -> JsShift(array)
      [] mutation = "sort" ->
            StableSort(array,
                       [i \in 1..Len(array) |->
                           CASE array[i].eventType = "breakpoint" -> 1
                             [] array[i].eventType = "exception" -> 2
                             [] OTHER -> 3])

\* DebugSessionManager.getSessionHistory: a copy of the session's array
getSessionHistory(sessionId) ==
    IF getSession(sessionId) THEN sessionHistory[sessionId] ELSE <<>>

\* DataProcessor.getContextHistory: the array held by the map, or a new
\* empty one
getContextHistory(sessionId) ==
    IF InSeq(dpOrder, sessionId) THEN dpHistory[sessionId] ELSE <<>>

\* a caller changes what getSessionHistory(sessionId) returned: the
\* array is a copy ([...contextHistory]) and the stored one stays
changeSessionHistory(sessionId, mutation) ==
    /\ Len(getSessionHistory(sessionId)) <= MaxPipelineEvents
    /\ lastOp' = [op |-> "getSessionHistory", policy |-> NoPolicy, at |-> now,
                  flip |-> lastOp.flip, sessionId |-> sessionId,
                  array |-> Mutated(getSessionHistory(sessionId), mutation)]
    /\ UNCHANGED <<now, activeSessions, stoppedSessions, sessionHistory, dpOrder,
                   dpHistory, tasks, arrived, ev, conBuf, conAppended, netBuf,
                   netAppended, filt, config, middlewares, eventListeners,
                   aiModeEnabled>>

\* a caller changes what getContextHistory(sessionId) returned: for a key
\* of the map the array is the stored one
changeContextHistory(sessionId, mutation) ==
    /\ Len(getContextHistory(sessionId)) <= MaxPipelineEvents
    /\ lastOp' = [op |-> "getContextHistory", policy |-> NoPolicy, at |-> now,
                  flip |-> lastOp.flip, sessionId |-> sessionId,
                  array |-> Mutated(getContextHistory(sessionId), mutation)]
    /\ dpHistory' = IF InSeq(dpOrder, sessionId)
                    THEN [dpHistory EXCEPT ![sessionId] = Mutated(@, mutation)]
                    ELSE dpHistory
    /\ UNCHANGED <<now, activeSessions, stoppedSessions, sessionHistory, dpOrder,
                   tasks, arrived, ev, conBuf, conAppended, netBuf,
                   netAppended, filt, config, middlewares, eventListeners,
                   aiModeEnabled>>

NextCallers ==
    \/ \E s \in Sessions : StartSession(s)
    \/ /\ Pushed < MaxPipelineEvents
       /\ \E context \in PipelineContexts :
             processAndAnalyzeDebugContext(context, << >>)
    \/ \E s \in Sessions, mutation \in Mutations : changeSessionHistory(s, mutation)
    \/ \E s \in Sessions, mutation \in Mutations : changeContextHistory(s, mutation)

SpecCallers == Init /\ [][NextCallers]_vars

\* C34 (as stated): what getSessionHistory(sessionId) and
\* getContextHistory(sessionId) return is a snapshot: a caller that
\* changes the returned array (push, splice, sort) changes the stored
\* history of no session.
C34_GettersReturnSnapshots ==
    [][lastOp'.op \in {"getSessionHistory", "getContextHistory"} =>
          /\ sessionHistory' = sessionHistory
          /\ dpHistory' = dpHistory]_vars

-----------------------------------------------------------------------------
(* Reading the buffers: SpecRecent.  Entries are appended to the console   *)
(* and network buffers, and the latest n are asked for.                    *)

\* MiddlewareRegistry.getRecentNetworkActivity
getRecentNetworkActivity(count) == JsSlice(netBuf, -count)

\* a call of getRecentConsoleOutput(maxEntries)
readRecentConsoleOutput(maxEntries) ==
    /\ lastOp' = [op |-> "getRecentConsoleOutput", policy |-> NoPolicy, at |-> now,
                  flip |-> lastOp.flip, n |-> maxEntries,
                  result |-> getRecentConsoleOutput(maxEntries)]
    /\ UNCHANGED <<now, activeSessions, stoppedSessions, sessionHistory, dpOrder,
                   dpHistory, tasks, arrived, ev, conBuf, conAppended, netBuf,
                   netAppended, filt, config, middlewares, eventListeners,
                   aiModeEnabled>>

\* a call of getRecentNetworkActivity(count)
readRecentNetworkActivity(count) ==
    /\ lastOp' = [op |-> "getRecentNetworkActivity", policy |-> NoPolicy, at |-> now,
                  flip |-> lastOp.flip, n |-> count,
                  result |-> getRecentNetworkActivity(count)]
    /\ UNCHANGED <<now, activeSessions, stoppedSessions, sessionHistory, dpOrder,
                   dpHistory, tasks, arrived, ev, conBuf, conAppended, netBuf,
                   netAppended, filt, config, middlewares, eventListeners,
                   aiModeEnabled>>

NextRecent ==
    \/ conAppended < MaxRecentAppends /\ collectConsoleOutput
    \/ netAppended < MaxRecentAppends /\ collectNetworkData
    \/ clearConsoleBuffer
    \/ clearNetworkBuffer
    \/ \E n \in 0..(MaxRecentAppends + 1) : readRecentConsoleOutput(n)
    \/ \E n \in 0..(MaxRecentAppends + 1) : readRecentNetworkActivity(n)

SpecRecent == Init /\ [][NextRecent]_vars

\* the last Min(n, Len(buffer)) entries of a buffer, in buffer order
LastEntries(buffer, n) ==
    SubSeq(buffer, Len(buffer) - Min(n, Len(buffer)) + 1, Len(buffer))

\* C36 (as stated): recent(n) returns the last n entries.  For every
\* n >= 0 and every buffer state getRecentConsoleOutput(n) and
\* getRecentNetworkActivity(n) return exactly the last min(n, length)
\* buffered entries in buffer order, and leave the buffer unchanged.
C36_RecentReturnsLastN ==
    [][/\ (lastOp' # lastOp /\ lastOp'.op = "getRecentConsoleOutput")
             => /\ lastOp'.result = LastEntries(conBuf, lastOp'.n)
                /\ conBuf' = conBuf
       /\ (lastOp' # lastOp /\ lastOp'.op = "getRecentNetworkActivity")
             => /\ lastOp'.result = LastEntries(netBuf, lastOp'.n)
                /\ netBuf' = netBuf]_vars

-----------------------------------------------------------------------------
(* Bodies that cannot be serialized: SpecSerialize.  collectNetworkData is *)
(* handed bodies for which JSON.stringify throws (an object that holds     *)
(* itself), with listeners registered.                                     *)

\* const body = {}; body.self = body
Circular == [kind |-> "circular", s |-> "", props |-> <<>>]

\* JSON.stringify(value) returns (it throws a TypeError on a circular
\* structure)
RECURSIVE Serializable(_)
Serializable(value) ==
    CASE value.kind = "circular" -> FALSE
      [] value.kind = "object" ->
            \A i \in 1..Len(value.props) : Serializable(value.props[i].value)
      [] value.kind = "array" ->
            \A i \in 1..Len(value.props) : Serializable(value.props[i])
      [] OTHER -> TRUE

\* filterBody throws: the body is captured, is not a string, and cannot
\* be serialized for the size check
filterBodyThrows(body, type, cfg) ==
    LET shouldCapture == IF type = "request" THEN cfg.captureRequestBody
                         ELSE cfg.captureResponseBody
    IN  /\ shouldCapture
        /\ ~Falsy(body)
        /\ body.kind # "string"
        /\ ~Serializable(body)

SerializePairs ==
    { <<Request("POST", "/a", <<>>, Obj(<< Prop("name", Str("John")) >>)),
        Response(200, Str("ok"))>>,
      <<Request("POST", "/a", <<>>, Circular), Response(200, None)>>,
      <<Request("POST", "/a", <<>>, None),
        Response(200, Obj(<< Prop("password", Str("pw")),
                             Prop("self", Circular) >>))>> }

\* MiddlewareRegistry.collectNetworkData: nothing in it catches what
\* filterBody throws, so the call ends there; otherwise the record is
\* buffered and the listeners are called with the request and the response
\* as they were handed in
collectNetworkDataOf(request, response) ==
    IF \/ filterBodyThrows(request.body, "request", config)
       \/ filterBodyThrows(response.body, "response", config)
    THEN /\ lastOp' = [op |-> "collectNetworkData", policy |-> NoPolicy,
                       at |-> now, flip |-> ~lastOp.flip, threw |-> TRUE,
                       request |-> request, response |-> response,
                       before |-> eventListeners, notified |-> <<>>]
         /\ UNCHANGED <<netBuf, netAppended, eventListeners>>
         /\ UNCHANGED ListenerOthers
    ELSE LET networkData ==
                 NetworkDataOf(request, response, config, netAppended + 1, now)
             done == notifyListeners(eventListeners)
         IN  /\ netBuf' = addToBuffer(netBuf, networkData)
             /\ netAppended' = netAppended + 1
             /\ eventListeners' = done.list
             /\ lastOp' = [op |-> "collectNetworkData", policy |-> NoPolicy,
                           at |-> now, flip |-> ~lastOp.flip, threw |-> FALSE,
                           request |-> request, response |-> response,
                           before |-> eventListeners, notified |-> done.notified,
                           result |-> networkData,
                           event |-> [request |-> request, response |-> response,
                                      timestamp |-> now,
                                      duration |-> response.duration]]
             /\ UNCHANGED ListenerOthers

NextSerialize ==
    \/ \E listener \in ListenerPool : addEventListener(listener)
    \/ /\ netAppended < MaxRequests
       /\ \E pair \in SerializePairs : collectNetworkDataOf(pair[1], pair[2])

SpecSerialize == Init /\ [][NextSerialize]_vars

\* C37 (as stated): collectNetworkData recovers locally from a body that
\* cannot be serialized.  The call does not throw, the record is buffered
\* and announced to the listeners, the affected body is stored in a
\* string form, and the original of that body is not forwarded.
C37_SerializationRecovered ==
    [][(lastOp' # lastOp /\ lastOp'.op = "collectNetworkData") =>
          /\ ~lastOp'.threw
          /\ netAppended' = netAppended + 1
          /\ Last(netBuf') = lastOp'.result
          /\ Len(lastOp'.notified) = Len(eventListeners)
          /\ \/ Serializable(lastOp'.request.body)
             \/ /\ lastOp'.result.requestBody.kind = "string"
                /\ lastOp'.event.request.body # lastOp'.request.body
          /\ \/ Serializable(lastOp'.response.body)
             \/ /\ lastOp'.result.responseBody.kind = "string"
                /\ lastOp'.event.response.body # lastOp'.response.body]_vars

-----------------------------------------------------------------------------
(* Aggregation of network records: SpecAggregate.  The records that the
   registry has built are the networkActivity of a context handed to
   DataProcessor.processContext. *)

AggregatePairs ==
    NetworkPairs \cup {<<request, Response(200, None)>> : request \in CategoryRequests}

\* DataProcessor.processContext on a context whose networkActivity is the
\* registry's recent activity; the list it is given is sorted in place
processRecentNetworkActivity ==
    LET networkActivity == getRecentNetworkActivity(50)
        sorted == StableSort(networkActivity,
                             [i \in 1..Len(networkActivity) |->
                                 networkActivity[i].timestamp])
    IN  /\ networkActivity # <<>>
        /\ lastOp' = [op |-> "processNetworkActivity", policy |-> NoPolicy,
                      at |-> now, flip |-> ~lastOp.flip,
                      networkActivity |-> sorted,
                      result |-> processNetworkActivity(networkActivity)]
        /\ UNCHANGED <<now, activeSessions, stoppedSessions, sessionHistory,
                       dpOrder, dpHistory, tasks, arrived, ev, conBuf,
                       conAppended, netBuf, netAppended, filt, config,
                       middlewares, eventListeners, aiModeEnabled>>

NextAggregate ==
    \/ /\ netAppended < MaxRequests
       /\ \E pair \in AggregatePairs : collectNetworkPair(pair[1], pair[2])
    \/ processRecentNetworkActivity

SpecAggregate == Init /\ [][NextAggregate]_vars

\* C39 (as stated): aggregation does not change a record's classification.
\* The domain, isExternal and category of every record that processContext
\* returns equal the values the registry derived for the same request.
C39_ClassificationPreserved ==
    lastOp.op = "processNetworkActivity" =>
        \A i \in 1..Len(lastOp.result) :
            /\ lastOp.result[i].domain = lastOp.networkActivity[i].domain
            /\ lastOp.result[i].isExternal = lastOp.networkActivity[i].isExternal
            /\ lastOp.result[i].category = lastOp.networkActivity[i].category

-----------------------------------------------------------------------------
(* AI Debug Mode: SpecMode.  The user's toggle command next to the
   sessions and events of Spec. *)

\* UIController.toggleAIMode
toggleAIMode ==
    /\ aiModeEnabled' = ~aiModeEnabled
    /\ lastOp' = [op |-> "toggleAIMode", policy |-> NoPolicy, at |-> now,
                  flip |-> ~lastOp.flip, result |-> ~aiModeEnabled]
    /\ UNCHANGED <<now, activeSessions, stoppedSessions, sessionHistory,
                   dpOrder, dpHistory, tasks, arrived, ev, conBuf,
                   conAppended, netBuf, netAppended, filt, config,
                   middlewares, eventListeners>>

NextMode ==
    \/ toggleAIMode
    \/ \E s \in Sessions : StartSession(s)
    \/ \E s \in Sessions : StopSession(s)
    \/ TotalArrived < MaxEvents /\ \E s \in Tracked, r \in StopReasons : StoppedEvent(s, r)
    \/ TotalArrived < MaxEvents /\ \E s \in Tracked, b \in BOOLEAN : OutputEvent(s, b)
    \/ TotalArrived < MaxEvents /\ \E s \in Tracked : onBreakpoint(s, TRUE)
    \/ TotalArrived < MaxEvents /\ \E s \in Tracked, st \in StepTypes : onStepComplete(s, st)
    \/ \E t \in tasks, found \in BOOLEAN : ThreadResponse(t, found)
    \/ \E t \in tasks, frames \in StackChoices : StackResponse(t, frames)
    \/ \E t \in tasks, vs \in VarChoices : VarsResponse(t, vs)
    \/ \E t \in tasks, ok \in BOOLEAN : AIResponse(t, ok)

SpecMode == Init /\ [][NextMode]_vars

\* the user's last toggleAIMode() left the mode disabled, and nothing has
\* been recorded since
ToggledOff == lastOp.op = "toggleAIMode" /\ ~lastOp.result /\ ~aiModeEnabled

\* C40 (as stated): while AI Debug Mode is off no diagnostic request is
\* sent.  From a state in which the user's last toggle left the mode
\* disabled, no step brings an event to the call of sendDiagnosticRequest,
\* and only another toggle switches the mode on: starting a session or
\* processing an event does not.
C40_NoRequestWhileModeOff ==
    [][ToggledOff =>
          /\ \A t \in tasks' : t.pc = "ai" => t \in tasks
          /\ aiModeEnabled' => (lastOp' # lastOp /\ lastOp'.op = "toggleAIMode")]_vars

=============================================================================
